---- MODULE Spec2Model ----
(***************************************************************************)
(* Coverage extraction, aggregation and comparison scripts of the          *)
(* LLM4Cpp trace repository.                                               *)
(*                                                                         *)
(* Representation.                                                         *)
(*  - A Python str is a sequence of character codes (ASCII).               *)
(*  - A Python float is an integer number of Unit-ths (1e-7): 80.0 is      *)
(*    80 * Unit.  Arithmetic is exact; round(x, 2) rounds to a multiple of *)
(*    Cent, an exact tie to the even one (Python rounds the binary double, *)
(*    so on a decimal tie it may go either way; the properties below allow *)
(*    both).  TLC's integers are 32 bits wide, so the sampled percentages  *)
(*    are small ones.                                                      *)
(*  - A coverage value is a record [k, n]: k = "num" (a number n),         *)
(*    k = "NaN" (the 'NaN' sentinel string), k = "None" (Python None),     *)
(*    k = "nan" (a float nan).                                             *)
(***************************************************************************)
EXTENDS Integers, Sequences, FiniteSets, TLC

VARIABLES
    tree,          \* ai_test_logs: the function folders, in os.listdir order
    results,       \* what analyze_test_logs(base_path) returned
    records,       \* the argument list of a calculate_averages call
    average,       \* what that call returned (or a two-level average)
    ablation,      \* the two tables written by create_ablation_tables
    csv,           \* coverage_results/: the CSV files the scripts wrote there
    report,        \* coverage_comparison_all_projects_by_function.csv
    reportStrict,  \* ..._by_function_cw_nonzero.csv
    reportSwapped, \* the function-level report for the snapshot with the two
                   \* compared variants exchanged
    rawValue,      \* the argument of a to_coverage_value call
    coerced,       \* what that call returned
    change,        \* a calc_change call: its operands, what it returned and
                   \* the value emitted for it
    missing,       \* what check_missing_ai_logs(base_path) returned
    important,     \* a filter_important call of main(): the counts it prints
                   \* and the list it returns
    functionsDiff  \* what compare_project_functions.py wrote

vars == <<tree, results, records, average, ablation, csv, report, reportStrict,
          reportSwapped, rawValue, coerced, change, missing, important, functionsDiff>>

----------------------------------------------------------------------------
(* Bounds of the model *)

MaxFolders == 2
MaxRecords == 3

----------------------------------------------------------------------------
(* Numbers *)

Unit == 10^7
Cent == Unit \div 100

Abs(x) == IF x < 0 THEN -x ELSE x

\* round(x, 2) of a float x; ties go to the even hundredth
Round2(x) ==
    LET q == x \div Cent
        r == x % Cent
    IN  IF 2 * r < Cent THEN q * Cent
        ELSE IF 2 * r > Cent THEN (q + 1) * Cent
        ELSE IF q % 2 = 0 THEN q * Cent ELSE (q + 1) * Cent

\* round(s / n, 2) for a sum s of n floats
RoundMean(s, n) ==
    LET d == n * Cent
        q == s \div d
        r == s % d
    IN  IF 2 * r < d THEN q * Cent
        ELSE IF 2 * r > d THEN (q + 1) * Cent
        ELSE IF q % 2 = 0 THEN q * Cent ELSE (q + 1) * Cent

Num(x) == [k |-> "num", n |-> x]
NaN == [k |-> "NaN", n |-> 0]
None == [k |-> "None", n |-> 0]
FloatNan == [k |-> "nan", n |-> 0]
IsNum(v) == v.k = "num"

----------------------------------------------------------------------------
(* Strings *)

IsDigit(c) == c \in 48..57
IsSpace(c) == c \in {32, 9, 10, 13}

LowerChar(c) == IF c \in 65..90 THEN c + 32 ELSE c
UpperChar(c) == IF c \in 97..122 THEN c - 32 ELSE c
Lower(s) == [i \in 1..Len(s) |-> LowerChar(s[i])]
Upper(s) == [i \in 1..Len(s) |-> UpperChar(s[i])]

EndsWith(s, suf) ==
    /\ Len(s) >= Len(suf)
    /\ SubSeq(s, Len(s) - Len(suf) + 1, Len(s)) = suf

StartsWith(s, pre) ==
    /\ Len(s) >= Len(pre)
    /\ SubSeq(s, 1, Len(pre)) = pre

RECURSIVE LStrip(_)
LStrip(s) == IF s # <<>> /\ IsSpace(Head(s)) THEN LStrip(Tail(s)) ELSE s

RECURSIVE RStrip(_)
RStrip(s) ==
    IF s # <<>> /\ IsSpace(s[Len(s)]) THEN RStrip(SubSeq(s, 1, Len(s) - 1)) ELSE s

Strip(s) == RStrip(LStrip(s))

\* s < t in Python's str order (code point by code point)
RECURSIVE StrLess(_, _)
StrLess(s, t) ==
    IF t = <<>> THEN FALSE
    ELSE IF s = <<>> THEN TRUE
    ELSE IF Head(s) # Head(t) THEN Head(s) < Head(t)
    ELSE StrLess(Tail(s), Tail(t))

RECURSIVE DigitsValue(_)
DigitsValue(s) ==
    IF s = <<>> THEN 0
    ELSE DigitsValue(SubSeq(s, 1, Len(s) - 1)) * 10 + (s[Len(s)] - 48)

\* position of the first c in s, 0 when there is none
IndexOf(s, c) ==
    IF \E i \in 1..Len(s) : s[i] = c
    THEN CHOOSE i \in 1..Len(s) : s[i] = c /\ \A j \in 1..(i - 1) : s[j] # c
    ELSE 0

AllDigits(s) == \A i \in 1..Len(s) : IsDigit(s[i])

\* the fraction digits d1 d2 ... as a number of Unit-ths (7 digits kept)
FracValue(s) ==
    LET padded == [i \in 1..7 |-> IF i <= Len(s) THEN s[i] ELSE 48]
    IN  DigitsValue(padded)

STR_nan == <<110, 97, 110>>
STR_n_a == <<110, 47, 97>>
STR_NaN == <<78, 97, 78>>

\* float(s) on the grammar  ws [+-] (digits [. digits] | . digits | nan) ws ;
\* any other text is a ValueError, given as k = "ValueError"
PyFloatDigits(body, ip, fp, neg) ==
    IF Lower(body) = STR_nan THEN FloatNan
    ELSE IF body # <<>> /\ AllDigits(ip) /\ AllDigits(fp) /\ Len(ip) + Len(fp) > 0
    THEN Num((IF neg THEN -1 ELSE 1) * (DigitsValue(ip) * Unit + FracValue(fp)))
    ELSE [k |-> "ValueError", n |-> 0]

PyFloatParts(body, dot, neg) ==
    PyFloatDigits(body,
                  IF dot = 0 THEN body ELSE SubSeq(body, 1, dot - 1),
                  IF dot = 0 THEN <<>> ELSE SubSeq(body, dot + 1, Len(body)),
                  neg)

PyFloatBody(body, neg) == PyFloatParts(body, IndexOf(body, 46), neg)

PyFloatStripped(s) ==
    IF s # <<>> /\ s[1] \in {43, 45}
    THEN PyFloatBody(Tail(s), s[1] = 45)
    ELSE PyFloatBody(s, FALSE)

PyFloat(s0) == PyFloatStripped(Strip(s0))

----------------------------------------------------------------------------
(* Names that occur in the artifact tree *)

STR_llm4cpp == <<108, 108, 109, 52, 99, 112, 112>>
STR_citywalk == <<99, 105, 116, 121, 119, 97, 108, 107>>
STR_no_reflect == <<110, 111, 95, 114, 101, 102, 108, 101, 99, 116>>
STR_no_context == <<110, 111, 95, 99, 111, 110, 116, 101, 120, 116>>
STR_p == <<112>>
STR_q == <<113>>
STR_u_cpp == <<117, 95, 99, 112, 112>>
STR_v_h == <<118, 95, 104>>
STR_w == <<119>>
STR_f == <<102>>
STR_g == <<103>>
STR_8_5 == <<56, 46, 53>>
STR_plus_nan == <<43, 110, 97, 110>>
STR_N_A == <<78, 47, 65>>

----------------------------------------------------------------------------
(* analyze_coverage.py: analyze_test_logs *)

\* JSON values of a payload; "missing" is a key the object does not have.
\* Besides null, text and number a value can be t = "bool", "nan" (the
\* literal NaN) or "list" (a list or an object)
JNull == [t |-> "null", s |-> <<>>, n |-> 0]
JMissing == [t |-> "missing", s |-> <<>>, n |-> 0]
JStr(s) == [t |-> "str", s |-> s, n |-> 0]
JNum(x) == [t |-> "num", s |-> <<>>, n |-> x]

\* d.get(key, 0)
Get0(raw) == IF raw.t = "missing" THEN JNum(0) ELSE raw

FloatOrZero_Raising(v) == v

\* try: return float(value) / except ValueError (except Exception for a
\* value that is no str): return 0.0
FloatOrZero(v) == IF v.k \in {"ValueError", "TypeError"} THEN Num(0) ELSE v

\* float(value) of a JSON value that is no str and not null: a number, true
\* or false (t = "bool", n = 1 or 0), the literal NaN (t = "nan"), or a list
\* or an object (t = "list"), for which float() is a TypeError
FloatOfJson(value) ==
    IF value.t = "num" THEN Num(value.n)
    ELSE IF value.t = "bool" THEN Num(value.n * Unit)
    ELSE IF value.t = "nan" THEN FloatNan
    ELSE [k |-> "TypeError", n |-> 0]

to_coverage_value(value) ==
    IF value.t = "null" THEN Num(0)
    ELSE IF value.t = "str"
    THEN IF Lower(value.s) \in {STR_nan, STR_n_a} THEN NaN
         ELSE IF value.s = <<>> THEN Num(0)
         ELSE FloatOrZero(PyFloat(value.s))
    ELSE FloatOrZero(FloatOfJson(value))

round_if_numeric(value) ==
    IF value.k = "NaN" THEN value
    ELSE IF value.k = "num" THEN Num(Round2(value.n))
    ELSE value

\* abs(ret) < 1e-6
ChangeEps == Unit \div 10^6

ClampChange_Inclusive(ret) == IF Abs(ret) <= ChangeEps THEN Num(0) ELSE Num(ret)

\* Round to 0 if very close to zero
ClampChange(ret) == IF Abs(ret) < ChangeEps THEN Num(0) ELSE Num(ret)

\* a 'NaN' operand gives a 'NaN' change
calc_change_Propagating(total, initial) ==
    IF total.k = "NaN" \/ initial.k = "NaN" THEN NaN
    ELSE IF total.k = "nan" \/ initial.k = "nan" THEN FloatNan
    ELSE ClampChange(total.n - initial.n)

\* total - initial; a str operand ('NaN') makes the subtraction a TypeError
calc_change(total, initial) ==
    IF total.k = "NaN" \/ initial.k = "NaN" THEN [k |-> "TypeError", n |-> 0]
    ELSE IF total.k = "nan" \/ initial.k = "nan" THEN FloatNan
    ELSE ClampChange(total.n - initial.n)

DenominatorIsZero_Never(raw) == FALSE

\* coverage_data.get('totalStatements', 0) == 0
DenominatorIsZero(raw) == Get0(raw).t = "num" /\ Get0(raw).n = 0

\* '_cpp' in file_name instead of file_name.endswith('_cpp')
FileNameOf_Anywhere(file_folder) ==
    IF \E i \in 1..(Len(file_folder) - 3) : SubSeq(file_folder, i, i + 3) = <<95, 99, 112, 112>>
    THEN SubSeq(file_folder, 1, Len(file_folder) - 4) \o <<46, 99, 112, 112>>
    ELSE IF EndsWith(file_folder, <<95, 104>>)
    THEN SubSeq(file_folder, 1, Len(file_folder) - 2) \o <<46, 104>>
    ELSE file_folder

\* file_name: _cpp -> .cpp, _h -> .h
FileNameOf(file_folder) ==
    IF EndsWith(file_folder, <<95, 99, 112, 112>>)
    THEN SubSeq(file_folder, 1, Len(file_folder) - 4) \o <<46, 99, 112, 112>>
    ELSE IF EndsWith(file_folder, <<95, 104>>)
    THEN SubSeq(file_folder, 1, Len(file_folder) - 2) \o <<46, 104>>
    ELSE file_folder

NoRecord == [FunctionName |-> <<>>, FileName |-> <<>>, Project |-> <<>>,
             MainFolder |-> <<>>,
             InitialStatementCoverage |-> None, TotalStatementCoverage |-> None,
             StatementCoverageChange |-> None,
             InitialBranchCoverage |-> None, TotalBranchCoverage |-> None,
             BranchCoverageChange |-> None]

\* results.append({...}) with the six values rounded, unless a change
\* could not be computed
TryAppend(d, initial_stmt_cov, total_stmt_cov, stmt_change, initial_branch_cov, total_branch_cov, branch_change) ==
    IF stmt_change.k = "TypeError" \/ branch_change.k = "TypeError"
    THEN [exc |-> "TypeError", rec |-> NoRecord]
    ELSE [exc |-> "none",
          rec |-> [FunctionName |-> d.fn,
                   FileName |-> FileNameOf(d.ff),
                   Project |-> d.proj,
                   MainFolder |-> d.mf,
                   InitialStatementCoverage |-> round_if_numeric(initial_stmt_cov),
                   TotalStatementCoverage |-> round_if_numeric(total_stmt_cov),
                   StatementCoverageChange |-> round_if_numeric(stmt_change),
                   InitialBranchCoverage |-> round_if_numeric(initial_branch_cov),
                   TotalBranchCoverage |-> round_if_numeric(total_branch_cov),
                   BranchCoverageChange |-> round_if_numeric(branch_change)]]

\* stmt_change, branch_change = calc_change(...)
TryChanges(d, initial_stmt_cov, total_stmt_cov, initial_branch_cov, total_branch_cov) ==
    TryAppend(d, initial_stmt_cov, total_stmt_cov,
              calc_change(total_stmt_cov, initial_stmt_cov),
              initial_branch_cov, total_branch_cov,
              calc_change(total_branch_cov, initial_branch_cov))

\* the coerced value of a kind, 0 when the kind's count is zero
Overridden(count, raw) ==
    IF DenominatorIsZero(count) THEN Num(0) ELSE to_coverage_value(Get0(raw))

\* the body of the try block for one function folder: the exception it
\* raises ("none" when it appends) and the record it appends
TryBody(d) ==
    IF d.cov.st = "malformed" \/ d.ai.st = "malformed"
    THEN [exc |-> "JSONDecodeError", rec |-> NoRecord]
    ELSE IF d.ai.st = "notdict" \/ d.cov.st = "notdict"
    THEN [exc |-> "AttributeError", rec |-> NoRecord]
    ELSE TryChanges(d,
                    Overridden(d.cov.totalStatements, d.ai.statementCoverage),
                    Overridden(d.cov.totalStatements, d.cov.stmtCov),
                    Overridden(d.cov.totalBranches, d.ai.branchCoverage),
                    Overridden(d.cov.totalBranches, d.cov.branchCov))

Caught_ValueErrorOnly(exc) == exc = "JSONDecodeError"

\* except Exception as e: every exception of the try block is caught
Caught(exc) == TRUE

\* what the try statement leaves: "record" (appended), "error" (exception
\* caught and printed), "raise" (exception leaves the loop)
TryExcept(b) ==
    IF b.exc = "none" THEN [kind |-> "record", rec |-> b.rec]
    ELSE IF Caught(b.exc) THEN [kind |-> "error", rec |-> NoRecord]
    ELSE [kind |-> "raise", rec |-> NoRecord]

\* one function folder; "skip" when a file of the pair is not found
AnalyzeFolder(d) ==
    IF d.cov.st = "absent" \/ d.ai.st = "absent"
    THEN [kind |-> "skip", rec |-> NoRecord]
    ELSE TryExcept(TryBody(d))

FunctionPath(d) == <<d.mf, d.proj, d.ff, d.fn>>

\* the run after one more function folder
Accumulate(acc, d, o) ==
    IF o.kind = "raise" THEN [acc EXCEPT !.st = "raised"]
    ELSE IF o.kind = "record" THEN [acc EXCEPT !.recs = Append(@, o.rec)]
    ELSE IF o.kind = "error" THEN [acc EXCEPT !.errors = Append(@, FunctionPath(d))]
    ELSE acc

RECURSIVE AnalyzeFrom(_, _)
AnalyzeFrom(t, acc) ==
    IF acc.st = "raised" THEN acc
    ELSE IF t = <<>> THEN [acc EXCEPT !.st = "returned"]
    ELSE AnalyzeFrom(Tail(t), Accumulate(acc, Head(t), AnalyzeFolder(Head(t))))

NotRun == [st |-> "none", recs |-> <<>>, errors |-> <<>>]

analyze_test_logs(t) == AnalyzeFrom(t, NotRun)

----------------------------------------------------------------------------
(* analyze_coverage.py: calculate_averages *)

CoverageFields ==
    {"InitialStatementCoverage", "TotalStatementCoverage", "StatementCoverageChange",
     "InitialBranchCoverage", "TotalBranchCoverage", "BranchCoverageChange"}

\* v != 'NaN' and isinstance(v, (int, float))
IsNumeric(v) == v.k \in {"num", "nan"}

RECURSIVE SumOf(_)
SumOf(values) == IF values = <<>> THEN 0 ELSE Head(values).n + SumOf(Tail(values))

avg_skip_nan_CountingAll(values) ==
    LET numeric_values == SelectSeq(values, IsNumeric)
    IN  IF numeric_values = <<>> THEN Num(0)
        ELSE [k |-> "mean", s |-> SumOf(numeric_values), c |-> Len(values)]

\* the mean of the numeric values as the pair sum s, count c (k = "mean"),
\* 'NaN' when there is none, a float nan when one of them is a float nan
avg_skip_nan(values) ==
    LET numeric_values == SelectSeq(values, IsNumeric)
    IN  IF numeric_values = <<>> THEN NaN
        ELSE IF \E i \in 1..Len(numeric_values) : numeric_values[i].k = "nan"
        THEN FloatNan
        ELSE [k |-> "mean", s |-> SumOf(numeric_values), c |-> Len(numeric_values)]

\* round_if_numeric of calculate_averages, applied to what avg_skip_nan gave
RoundAverage(value) ==
    IF value.k = "mean" THEN Num(RoundMean(value.s, value.c)) ELSE value

Column(rs, field) == [i \in 1..Len(rs) |-> rs[i][field]]

\* None is <<>>, a returned row r is <<r>>
calculate_averages(rs) ==
    IF rs = <<>> THEN <<>>
    ELSE <<[FunctionName |-> <<65, 86, 69, 82, 65, 71, 69>>,
            FileName |-> <<>>,
            Project |-> <<>>,
            InitialStatementCoverage |->
                RoundAverage(avg_skip_nan(Column(rs, "InitialStatementCoverage"))),
            TotalStatementCoverage |->
                RoundAverage(avg_skip_nan(Column(rs, "TotalStatementCoverage"))),
            StatementCoverageChange |->
                RoundAverage(avg_skip_nan(Column(rs, "StatementCoverageChange"))),
            InitialBranchCoverage |->
                RoundAverage(avg_skip_nan(Column(rs, "InitialBranchCoverage"))),
            TotalBranchCoverage |->
                RoundAverage(avg_skip_nan(Column(rs, "TotalBranchCoverage"))),
            BranchCoverageChange |->
                RoundAverage(avg_skip_nan(Column(rs, "BranchCoverageChange")))]>>

----------------------------------------------------------------------------
(* analyze_coverage.py: filter_important *)

\* a value that is a str other than 'NaN'
Text(s) == [k |-> "text", n |-> 0, s |-> s]

\* fv = float(v); fv < 100.0, False when float(v) raises (None, a text that
\* is no number) or gives nan
ParsesBelow100(v) ==
    IF v.k = "text" THEN PyFloat(v.s).k = "num" /\ PyFloat(v.s).n < 100 * Unit
    ELSE FALSE

Kept_AtMost100(v) ==
    IF v.k = "NaN" THEN FALSE
    ELSE IF v.k = "num" /\ v.n <= 100 * Unit THEN TRUE
    ELSE ParsesBelow100(v)

\* the record of the value v is appended to filtered
Kept(v) ==
    IF v.k = "NaN" THEN FALSE
    ELSE IF v.k = "num" /\ v.n < 100 * Unit THEN TRUE
    ELSE ParsesBelow100(v)

RECURSIVE Filtered(_)
Filtered(rs) ==
    IF rs = <<>> THEN <<>>
    ELSE (IF Kept(Head(rs).InitialStatementCoverage) THEN <<Head(rs)>> ELSE <<>>)
            \o Filtered(Tail(rs))

\* the list returned, and the argument list after the call (the function
\* appends to its own list only)
filter_important(rs) == [filtered |-> Filtered(rs), results |-> rs]

----------------------------------------------------------------------------
(* ablation.py *)

MAIN_FOLDERS == {STR_llm4cpp, STR_no_reflect, STR_no_context}

\* the values of a sequence, each once, in the order of first occurrence
\* (the key order of a dict filled from it)
RECURSIVE Distinct(_)
Distinct(s) ==
    IF s = <<>> THEN <<>>
    ELSE <<Head(s)>> \o Distinct(SelectSeq(Tail(s), LAMBDA x : x # Head(s)))

\* sorted(set of str)
RECURSIVE SortedStrings(_)
SortedStrings(S) ==
    IF S = {} THEN <<>>
    ELSE LET m == CHOOSE x \in S : \A y \in S \ {x} : StrLess(x, y)
         IN  <<m>> \o SortedStrings(S \ {m})

round2(x) == IF x.k = "num" THEN Num(Round2(x.n)) ELSE x

avg_row(values) ==
    LET nums == SelectSeq(values, IsNumeric)
    IN  IF nums = <<>> THEN None
        ELSE IF \E i \in 1..Len(nums) : nums[i].k = "nan" THEN FloatNan
        ELSE Num(RoundMean(SumOf(nums), Len(nums)))

\* the records load_project_file_averages groups: those of MAIN_FOLDERS
KeptRecords(recs) == SelectSeq(recs, LAMBDA r : r.MainFolder \in MAIN_FOLDERS)

\* mf in data
HasMainFolder(data, mf) == \E i \in 1..Len(data) : data[i].MainFolder = mf

\* the keys of data[mf], in insertion order
ProjectKeys(data, mf) ==
    Distinct([i \in 1..Len(SelectSeq(data, LAMBDA r : r.MainFolder = mf)) |->
                 SelectSeq(data, LAMBDA r : r.MainFolder = mf)[i].Project])

\* the list data[mf][proj][fname] before it is averaged
FileRecords(data, mf, proj, fname) ==
    SelectSeq(data, LAMBDA r : r.MainFolder = mf /\ r.Project = proj /\ r.FileName = fname)

\* rows of average_across_projects: data[mf][proj][fname] for the projects
\* that have the file
RECURSIVE ProjectRows(_, _, _, _)
ProjectRows(data, mf, fname, projs) ==
    IF projs = <<>> THEN <<>>
    ELSE calculate_averages(FileRecords(data, mf, Head(projs), fname))
             \o ProjectRows(data, mf, fname, Tail(projs))

\* None is <<>>; data[mf] of a main folder without records is a KeyError
average_across_projects(data, mf, fname) ==
    IF ~HasMainFolder(data, mf) THEN [exc |-> "KeyError", row |-> <<>>]
    ELSE [exc |-> "none",
          row |-> calculate_averages(ProjectRows(data, mf, fname, ProjectKeys(data, mf)))]

\* the files of the baseline only
collect_all_files_OfBaseline(data) ==
    SortedStrings({data[i].FileName : i \in {j \in 1..Len(data) : data[j].MainFolder = STR_llm4cpp}})

collect_all_files(data) == SortedStrings({data[i].FileName : i \in 1..Len(data)})

\* the truth value of a cell operand: None and 0 are false
Truthy(v) == ~(v.k = "None" \/ (v.k = "num" /\ v.n = 0))

\* a - b on cell operands
Minus(a, b) ==
    IF a.k = "NaN" \/ b.k = "NaN" THEN [k |-> "TypeError", n |-> 0]
    ELSE IF a.k = "nan" \/ b.k = "nan" THEN FloatNan
    ELSE Num(a.n - b.n)

\* -(total - initial) if (total and initial) else None
WithoutIteration(total, initial) ==
    IF Truthy(total) /\ Truthy(initial) THEN Minus(initial, total) ELSE None

\* llm[field] if llm else None
FieldOrNone(row, field) == IF row # <<>> THEN row[1][field] ELSE None

\* (ref[field] - llm_total) if (llm and ref) else None
Contribution(llm, ref, field) ==
    IF llm # <<>> /\ ref # <<>> THEN Minus(ref[1][field], llm[1][field]) ELSE None

\* the eight cells of one file column
AblationColumn(llm, ref, nct) ==
    [llm_stmt |-> round2(FieldOrNone(llm, "TotalStatementCoverage")),
     llm_branch |-> round2(FieldOrNone(llm, "TotalBranchCoverage")),
     iter_stmt |-> round2(WithoutIteration(FieldOrNone(llm, "TotalStatementCoverage"),
                                           FieldOrNone(llm, "InitialStatementCoverage"))),
     iter_branch |-> round2(WithoutIteration(FieldOrNone(llm, "TotalBranchCoverage"),
                                             FieldOrNone(llm, "InitialBranchCoverage"))),
     reflect_stmt |-> round2(Contribution(llm, ref, "TotalStatementCoverage")),
     reflect_branch |-> round2(Contribution(llm, ref, "TotalBranchCoverage")),
     nocontext_stmt |-> round2(Contribution(llm, nct, "TotalStatementCoverage")),
     nocontext_branch |-> round2(Contribution(llm, nct, "TotalBranchCoverage"))]

ColumnRaises(c) == \E name \in DOMAIN c : c[name].k = "TypeError"

\* one table row: the cells and the trailing Avg
TableRow(cols, name) ==
    [cells |-> [i \in 1..Len(cols) |-> cols[i][name]],
     avg |-> avg_row([i \in 1..Len(cols) |-> cols[i][name]])]

WriteTables(all_files, cols) ==
    IF \E i \in 1..Len(cols) : ColumnRaises(cols[i])
    THEN [st |-> "raised", exc |-> "TypeError"]
    ELSE [st |-> "written",
          files |-> all_files,
          statement |-> [llm4cpp |-> TableRow(cols, "llm_stmt"),
                         iteration |-> TableRow(cols, "iter_stmt"),
                         reflect |-> TableRow(cols, "reflect_stmt"),
                         context |-> TableRow(cols, "nocontext_stmt")],
          branch |-> [llm4cpp |-> TableRow(cols, "llm_branch"),
                      iteration |-> TableRow(cols, "iter_branch"),
                      reflect |-> TableRow(cols, "reflect_branch"),
                      context |-> TableRow(cols, "nocontext_branch")]]

AblationTables(data, all_files) ==
    IF all_files # <<>> /\ \E mf \in MAIN_FOLDERS : ~HasMainFolder(data, mf)
    THEN [st |-> "raised", exc |-> "KeyError"]
    ELSE WriteTables(all_files,
             [i \in 1..Len(all_files) |->
                 AblationColumn(average_across_projects(data, STR_llm4cpp, all_files[i]).row,
                                average_across_projects(data, STR_no_reflect, all_files[i]).row,
                                average_across_projects(data, STR_no_context, all_files[i]).row)])

load_project_file_averages(t) == KeptRecords(analyze_test_logs(t).recs)

create_ablation_tables(t) ==
    AblationTables(load_project_file_averages(t),
                   collect_all_files(load_project_file_averages(t)))

----------------------------------------------------------------------------
(* analyze_coverage.py: export_to_csv_by_project *)

RECURSIVE DigitsOf(_)
DigitsOf(n) == IF n < 10 THEN <<48 + n>> ELSE DigitsOf(n \div 10) \o <<48 + (n % 10)>>

\* the 7 fraction digits of a float
FractionDigits(f) == [i \in 1..7 |-> 48 + ((f \div 10^(7 - i)) % 10)]

RECURSIVE StripZeros(_)
StripZeros(s) ==
    IF Len(s) > 1 /\ s[Len(s)] = 48 THEN StripZeros(SubSeq(s, 1, Len(s) - 1)) ELSE s

\* str(x) of a float x (no exponent form: the values written are hundredths)
FloatRepr(x) ==
    (IF x < 0 THEN <<45>> ELSE <<>>)
        \o DigitsOf(Abs(x) \div Unit) \o <<46>> \o StripZeros(FractionDigits(Abs(x) % Unit))

\* the text csv.DictWriter writes for a coverage value
CsvCell(v) ==
    IF v.k = "num" THEN FloatRepr(v.n)
    ELSE IF v.k = "nan" THEN STR_nan
    ELSE IF v.k = "NaN" THEN STR_NaN
    ELSE <<>>

STR_AVERAGE == <<65, 86, 69, 82, 65, 71, 69>>
STR_coverage_ == <<99, 111, 118, 101, 114, 97, 103, 101, 95>>
STR_all_ == <<97, 108, 108, 95>>
STR_csv == <<46, 99, 115, 118>>

\* one written line, under the header 'Function Name', 'File Name', ...
CsvRow(name, project, r) ==
    [FunctionName |-> name, FileName |-> r.FileName, Project |-> project,
     InitialStatementCoverage |-> CsvCell(r.InitialStatementCoverage),
     TotalStatementCoverage |-> CsvCell(r.TotalStatementCoverage),
     StatementCoverageChange |-> CsvCell(r.StatementCoverageChange),
     InitialBranchCoverage |-> CsvCell(r.InitialBranchCoverage),
     TotalBranchCoverage |-> CsvCell(r.TotalBranchCoverage),
     BranchCoverageChange |-> CsvCell(r.BranchCoverageChange)]

CleanRows(rs) == [i \in 1..Len(rs) |-> CsvRow(rs[i].FunctionName, rs[i].Project, rs[i])]

\* f'AVERAGE - {label}' row of calculate_averages, when it returned one
AverageRows(avg, label, project) ==
    IF avg = <<>> THEN <<>>
    ELSE <<CsvRow(STR_AVERAGE \o <<32, 45, 32>> \o label, project, avg[1])>>

\* project_name.replace('/', '_').replace('\\', '_')
SafeName(s) == [i \in 1..Len(s) |-> IF s[i] \in {47, 92} THEN 95 ELSE s[i]]

\* fieldnames of the function-level CSV files (the header line)
FunctionFieldnames == {"FunctionName", "FileName", "Project"} \cup CoverageFields

CsvFile(dir, name, rs, label, project) ==
    [dir |-> dir, name |-> name, fieldnames |-> FunctionFieldnames,
     rows |-> CleanRows(rs) \o AverageRows(calculate_averages(rs), label, project)]

InMainFolder(recs, mf) == SelectSeq(recs, LAMBDA r : r.MainFolder = mf)
InProject(recs, proj) == SelectSeq(recs, LAMBDA r : r.Project = proj)

\* main_folder_results: the records of a main folder, project by project
RECURSIVE GroupedByProject(_, _)
GroupedByProject(recs, projs) ==
    IF projs = <<>> THEN <<>>
    ELSE InProject(recs, Head(projs)) \o GroupedByProject(recs, Tail(projs))

ProjectFiles(mf, recs, projs) ==
    [i \in 1..Len(projs) |->
        CsvFile(mf, STR_coverage_ \o SafeName(projs[i]) \o STR_csv,
                InProject(recs, projs[i]), projs[i], projs[i])]

\* the files of one main folder: one per project, then the combined one
MainFolderFiles(mf, recs, projs) ==
    ProjectFiles(mf, recs, projs)
        \o <<CsvFile(mf, STR_coverage_ \o STR_all_ \o mf \o STR_csv,
                     GroupedByProject(recs, projs), Upper(mf), mf)>>

ProjectsOf(recs) == Distinct([i \in 1..Len(recs) |-> recs[i].Project])

RECURSIVE ExportMainFolders(_, _)
ExportMainFolders(recs, mfs) ==
    IF mfs = <<>> THEN <<>>
    ELSE MainFolderFiles(Head(mfs), InMainFolder(recs, Head(mfs)),
                         ProjectsOf(InMainFolder(recs, Head(mfs))))
            \o ExportMainFolders(recs, Tail(mfs))

\* the files written under coverage_results/, in the order they are written;
\* a later file of the same path replaces an earlier one
export_to_csv_by_project(recs) ==
    ExportMainFolders(recs, Distinct([i \in 1..Len(recs) |-> recs[i].MainFolder]))

----------------------------------------------------------------------------
(* generate_coverage_comparison.py *)

\* TOL = 1e-9 is 1 / TOL_INV
TOL_INV == 10^9

\* abs(x) < TOL
BelowTOL(x) == IF TOL_INV > Unit THEN x = 0 ELSE Abs(x) < Unit \div TOL_INV

\* float(s) when it is a number that is not nan, else None ('inf' texts are
\* outside the float grammar modelled here)
FloatOrNone(v) == IF v.k = "num" THEN v ELSE None

parse_float(s) == IF Strip(s) = <<>> THEN None ELSE FloatOrNone(PyFloat(Strip(s)))

DirExists(files, dir) == \E i \in 1..Len(files) : files[i].dir = dir

\* if "Function Name" not in [h.strip() for h in reader.fieldnames]: continue
RowsWithFunctionName(file) ==
    IF "FunctionName" \in file.fieldnames THEN file.rows ELSE <<>>

\* the rows read from dir/name, as its last writer left them
FileRows(files, dir, name) ==
    LET last == CHOOSE i \in 1..Len(files) :
                    /\ files[i].dir = dir /\ files[i].name = name
                    /\ \A j \in (i + 1)..Len(files) :
                           ~(files[j].dir = dir /\ files[j].name = name)
    IN  RowsWithFunctionName(files[last])

RECURSIVE ReadRows(_, _, _)
ReadRows(files, dir, names) ==
    IF names = <<>> THEN <<>>
    ELSE FileRows(files, dir, Head(names)) \o ReadRows(files, dir, Tail(names))

\* for csv_file in sorted(dir_path.glob("*.csv"))
SortedGlob(files, dir) ==
    SortedStrings({files[i].name : i \in {j \in 1..Len(files) : files[j].dir = dir}})

FuncOf(row) == Strip(row.FunctionName)

\* rows that are neither blank-named nor AVERAGE rows
IsFunctionRow(row) == FuncOf(row) # <<>> /\ ~StartsWith(Upper(FuncOf(row)), STR_AVERAGE)

\* mapping[func] = {"stmt": stmt, "branch": branch}, row after row
MappingOf(rows) ==
    [func \in {FuncOf(rows[i]) : i \in 1..Len(rows)} |->
        LET last == CHOOSE i \in 1..Len(rows) :
                        /\ FuncOf(rows[i]) = func
                        /\ \A j \in (i + 1)..Len(rows) : FuncOf(rows[j]) # func
        IN  [stmt |-> parse_float(rows[last].TotalStatementCoverage),
             branch |-> parse_float(rows[last].TotalBranchCoverage)]]

\* called on a directory that exists
read_all_coverage_in_dir(files, dir) ==
    MappingOf(SelectSeq(ReadRows(files, dir, SortedGlob(files, dir)), IsFunctionRow))

Lookup_ZeroWhenAbsent(mapping, func) ==
    IF func \in DOMAIN mapping THEN mapping[func] ELSE [stmt |-> Num(0), branch |-> Num(0)]

\* cw.get(func, {}).get("stmt") if cw.get(func) else None
Lookup(mapping, func) ==
    IF func \in DOMAIN mapping THEN mapping[func] ELSE [stmt |-> None, branch |-> None]

Difference_Magnitude(llm, cw) ==
    IF llm.k = "num" /\ cw.k = "num" THEN Num(Abs(llm.n - cw.n)) ELSE None

\* llm - cw when both are present
Difference(llm, cw) ==
    IF llm.k = "num" /\ cw.k = "num" THEN Num(llm.n - cw.n) ELSE None

\* round(delta, 2), and 0.0 when that is closer to zero than 1e-6
RoundDelta(delta) == IF delta.k = "num" THEN ClampChange(Round2(delta.n)) ELSE delta

ComparisonRow(func, cwv, llmv, stmt_delta, branch_delta) ==
    [func |-> func,
     cw_stmt |-> cwv.stmt, llm_stmt |-> llmv.stmt, stmt_delta |-> stmt_delta,
     cw_branch |-> cwv.branch, llm_branch |-> llmv.branch, branch_delta |-> branch_delta]

StandardRow(func, cwv, llmv) ==
    ComparisonRow(func, cwv, llmv,
                  RoundDelta(Difference(llmv.stmt, cwv.stmt)),
                  RoundDelta(Difference(llmv.branch, cwv.branch)))

is_zero_or_nan_MissingKept(v) == v.k = "num" /\ BelowTOL(v.n)

is_zero_or_nan(v) == v.k # "num" \/ BelowTOL(v.n)

\* if is_zero_or_nan(stmt_delta) and is_zero_or_nan(branch_delta): continue
Skipped(row) == is_zero_or_nan(row.stmt_delta) /\ is_zero_or_nan(row.branch_delta)

Retained(row) == ~Skipped(row)

\* f"{x:.2f}"
Fixed2(x) ==
    (IF x < 0 THEN <<45>> ELSE <<>>)
        \o DigitsOf(Abs(Round2(x)) \div Unit)
        \o <<46, 48 + ((Abs(Round2(x)) % Unit) \div (10 * Cent)),
                 48 + (((Abs(Round2(x)) % Unit) \div Cent) % 10)>>

RECURSIVE RStripChar(_, _)
RStripChar(s, c) ==
    IF s # <<>> /\ s[Len(s)] = c THEN RStripChar(SubSeq(s, 1, Len(s) - 1), c) ELSE s

\* s[:-3] for '.00', else rstrip("0").rstrip(".") for a trailing 0
Trimmed(s) ==
    IF EndsWith(s, <<46, 48, 48>>) THEN SubSeq(s, 1, Len(s) - 3)
    ELSE IF EndsWith(s, <<48>>) THEN RStripChar(RStripChar(s, 48), 46)
    ELSE s

fmt(val) == IF val.k = "num" THEN Trimmed(Fixed2(val.n)) ELSE <<>>

RowCells(row) ==
    <<row.func, fmt(row.cw_stmt), fmt(row.llm_stmt), fmt(row.stmt_delta),
      fmt(row.cw_branch), fmt(row.llm_branch), fmt(row.branch_delta)>>

\* the deltas appended to stmt_deltas / branch_deltas
Collected(rows, field) == SelectSeq(Column(rows, field), LAMBDA v : v.k # "None")

MeanOf(deltas) ==
    IF deltas = <<>> THEN None ELSE Num(RoundMean(SumOf(deltas), Len(deltas)))

\* fmt(round(sum / len, 2)); a negative mean that rounds to zero is -0.0
MeanCell(deltas) ==
    IF deltas = <<>> THEN <<>>
    ELSE IF SumOf(deltas) < 0 /\ RoundMean(SumOf(deltas), Len(deltas)) = 0 THEN <<45, 48>>
    ELSE fmt(MeanOf(deltas))

AveragedRows_BeforeFilter(all_rows, rows) == all_rows

\* the rows whose deltas are collected for the AVERAGE row
AveragedRows(all_rows, rows) == rows

AverageLine(rows) ==
    <<STR_AVERAGE, <<>>, <<>>, MeanCell(Collected(rows, "stmt_delta")),
      <<>>, <<>>, MeanCell(Collected(rows, "branch_delta"))>>

WriteReport(all_funcs, all_rows, rows) ==
    [st |-> "written",
     all_funcs |-> all_funcs,
     all_rows |-> all_rows,
     rows |-> rows,
     avg_stmt_delta |-> MeanOf(Collected(AveragedRows(all_rows, rows), "stmt_delta")),
     avg_branch_delta |-> MeanOf(Collected(AveragedRows(all_rows, rows), "branch_delta")),
     lines |-> [i \in 1..Len(rows) |-> RowCells(rows[i])]
                  \o <<AverageLine(AveragedRows(all_rows, rows))>>]

FilterReport(all_funcs, all_rows) ==
    WriteReport(all_funcs, all_rows, SelectSeq(all_rows, Retained))

\* all_funcs = sorted(set(list(cw.keys()) + list(llm.keys())))
AllFuncs(cw, llm) == SortedStrings(DOMAIN cw \cup DOMAIN llm)

CompareAll(cw, llm, all_funcs) ==
    FilterReport(all_funcs,
                 [i \in 1..Len(all_funcs) |->
                     StandardRow(all_funcs[i], Lookup(cw, all_funcs[i]), Lookup(llm, all_funcs[i]))])

Compare(cw, llm) == CompareAll(cw, llm, AllFuncs(cw, llm))

FileNotFound == [st |-> "raised", exc |-> "FileNotFoundError"]

\* main() of generate_coverage_comparison.py on the files of coverage_results/
generate_coverage_comparison(files) ==
    IF ~DirExists(files, STR_citywalk) \/ ~DirExists(files, STR_llm4cpp) THEN FileNotFound
    ELSE Compare(read_all_coverage_in_dir(files, STR_citywalk),
                 read_all_coverage_in_dir(files, STR_llm4cpp))

----------------------------------------------------------------------------
(* generate_coverage_comparison_filter_cw_nonzero.py *)

\* the deltas are not rounded
StrictRow(func, cwv, llmv) ==
    ComparisonRow(func, cwv, llmv,
                  Difference(llmv.stmt, cwv.stmt), Difference(llmv.branch, cwv.branch))

CwStatementIsZero_Never(row) == FALSE

\* (cw_stmt is not None) and (abs(cw_stmt) < TOL)
CwStatementIsZero(row) == row.cw_stmt.k = "num" /\ BelowTOL(row.cw_stmt.n)

RetainedStrict(row) == ~CwStatementIsZero(row) /\ ~Skipped(row)

\* no AVERAGE row is written
WriteStrictReport(all_funcs, rows) ==
    [st |-> "written",
     all_funcs |-> all_funcs,
     rows |-> rows,
     lines |-> [i \in 1..Len(rows) |-> RowCells(rows[i])]]

CompareAllStrict(cw, llm, all_funcs) ==
    WriteStrictReport(all_funcs,
        SelectSeq([i \in 1..Len(all_funcs) |->
                      StrictRow(all_funcs[i], Lookup(cw, all_funcs[i]), Lookup(llm, all_funcs[i]))],
                  RetainedStrict))

CompareStrict(cw, llm) == CompareAllStrict(cw, llm, AllFuncs(cw, llm))

generate_coverage_comparison_filter_cw_nonzero(files) ==
    IF ~DirExists(files, STR_citywalk) \/ ~DirExists(files, STR_llm4cpp) THEN FileNotFound
    ELSE CompareStrict(read_all_coverage_in_dir(files, STR_citywalk),
                       read_all_coverage_in_dir(files, STR_llm4cpp))

----------------------------------------------------------------------------
(* compare_project_functions.py *)

\* if not name: continue; if name.upper().startswith('AVERAGE'): continue
IsListedName_UpperCaseOnly(name) == name # <<>> /\ ~StartsWith(name, STR_AVERAGE)

IsListedName(name) == name # <<>> /\ ~StartsWith(Upper(name), STR_AVERAGE)

\* the names added from the rows of the files of a directory
NamesOf(rows) ==
    {Strip(rows[i].FunctionName) :
        i \in {j \in 1..Len(rows) : IsListedName(Strip(rows[j].FunctionName))}}

\* an empty set (after a warning) when the directory does not exist
load_functions_from_dir(files, dir) ==
    IF ~DirExists(files, dir) THEN {}
    ELSE NamesOf(ReadRows(files, dir, SortedGlob(files, dir)))

\* the counts and the two sorted lists of functions_diff_llm4cpp_vs_no_reflect.txt
write_report(llm_only, cw_only, llm_count, cw_count) ==
    [st |-> "written",
     llm_count |-> llm_count, cw_count |-> cw_count,
     llm_only |-> SortedStrings(llm_only), cw_only |-> SortedStrings(cw_only)]

FunctionsDiff(llm_funcs, cw_funcs) ==
    write_report(llm_funcs \ cw_funcs, cw_funcs \ llm_funcs,
                 Cardinality(llm_funcs), Cardinality(cw_funcs))

\* main(): LLM_DIR is coverage_results/llm4cpp, CW_DIR coverage_results/no_reflect
compare_project_functions(files) ==
    FunctionsDiff(load_functions_from_dir(files, STR_llm4cpp),
                  load_functions_from_dir(files, STR_no_reflect))

----------------------------------------------------------------------------
(* analyze_coverage_by_file.py and compare-file-level-coverage.py:          *)
(* export_to_csv_by_file                                                   *)

FIELDNAMES == {"FileName", "Project"} \cup CoverageFields

STR__by_file == <<95, 98, 121, 95, 102, 105, 108, 101>>

\* filtered = {k: avg_row.get(k, '') for k in FIELDNAMES}
ByFileRow(avg, file_name, project) ==
    [FileName |-> file_name, Project |-> project,
     InitialStatementCoverage |-> CsvCell(avg.InitialStatementCoverage),
     TotalStatementCoverage |-> CsvCell(avg.TotalStatementCoverage),
     StatementCoverageChange |-> CsvCell(avg.StatementCoverageChange),
     InitialBranchCoverage |-> CsvCell(avg.InitialBranchCoverage),
     TotalBranchCoverage |-> CsvCell(avg.TotalBranchCoverage),
     BranchCoverageChange |-> CsvCell(avg.BranchCoverageChange)]

InFile(recs, fname) == SelectSeq(recs, LAMBDA r : r.FileName = fname)

\* the keys of main_folders[mf][proj], in insertion order
FilesOf(recs) == Distinct([i \in 1..Len(recs) |-> recs[i].FileName])

\* rows_to_write of one project: one average row per file
FileAverageRows(recs, proj, fnames) ==
    [i \in 1..Len(fnames) |->
        ByFileRow(calculate_averages(InFile(recs, fnames[i]))[1], fnames[i], proj)]

ProjectByFileFile(mf, recs, proj) ==
    [dir |-> mf, name |-> STR_coverage_ \o SafeName(proj) \o STR__by_file \o STR_csv,
     fieldnames |-> FIELDNAMES,
     rows |-> FileAverageRows(recs, proj, FilesOf(recs))]

ProjectByFileFiles(mf, recs, projs) ==
    [i \in 1..Len(projs) |-> ProjectByFileFile(mf, InProject(recs, projs[i]), projs[i])]

RECURSIVE JoinComma(_)
JoinComma(s) ==
    IF s = <<>> THEN <<>>
    ELSE IF Len(s) = 1 THEN s[1]
    ELSE s[1] \o <<44>> \o JoinComma(Tail(s))

\* ','.join(sorted(projects_set)) of the projects that have the file
ContributingProjects(recs, fname) ==
    JoinComma(SortedStrings({InFile(recs, fname)[i].Project : i \in 1..Len(InFile(recs, fname))}))

\* analyze_coverage_by_file.py: one row per file name, the functions of all
\* projects that have a file of that name averaged together
MergedRows(grouped, fnames) ==
    [i \in 1..Len(fnames) |->
        ByFileRow(calculate_averages(InFile(grouped, fnames[i]))[1], fnames[i],
                  ContributingProjects(grouped, fnames[i]))]

STR_all_by_file_ == <<97, 108, 108, 95, 98, 121, 95, 102, 105, 108, 101, 95>>

CombinedByFileFile(mf, rows) ==
    [dir |-> mf, name |-> STR_coverage_ \o STR_all_by_file_ \o mf \o STR_csv,
     fieldnames |-> FIELDNAMES, rows |-> rows]

ByFileMainFolder(mf, recs, projs) ==
    ProjectByFileFiles(mf, recs, projs)
        \o <<CombinedByFileFile(mf, MergedRows(GroupedByProject(recs, projs),
                                               FilesOf(GroupedByProject(recs, projs))))>>

RECURSIVE ByFileMainFolders(_, _)
ByFileMainFolders(recs, mfs) ==
    IF mfs = <<>> THEN <<>>
    ELSE ByFileMainFolder(Head(mfs), InMainFolder(recs, Head(mfs)),
                          ProjectsOf(InMainFolder(recs, Head(mfs))))
            \o ByFileMainFolders(recs, Tail(mfs))

MainFoldersOf(recs) == Distinct([i \in 1..Len(recs) |-> recs[i].MainFolder])

\* export_to_csv_by_file of analyze_coverage_by_file.py: the files written
analyze_coverage_by_file(recs) == ByFileMainFolders(recs, MainFoldersOf(recs))

----------------------------------------------------------------------------
(* compare-file-level-coverage.py *)

\* the (project, file) pairs of main_folders[mf], as <<project, file>>
FileKeys(recs) == {<<recs[i].Project, recs[i].FileName>> : i \in 1..Len(recs)}

\* (x[0].lower(), x[1].lower()) of key a is less than that of key b
LowerKeyLess(a, b) ==
    \/ StrLess(Lower(a[1]), Lower(b[1]))
    \/ Lower(a[1]) = Lower(b[1]) /\ StrLess(Lower(a[2]), Lower(b[2]))

\* list.sort(key=...) is stable: x goes behind the rows whose key is not greater
RECURSIVE InsertRow(_, _)
InsertRow(sorted, x) ==
    IF sorted = <<>> THEN <<x>>
    ELSE IF LowerKeyLess(<<x.Project, x.FileName>>,
                         <<sorted[Len(sorted)].Project, sorted[Len(sorted)].FileName>>)
    THEN Append(InsertRow(SubSeq(sorted, 1, Len(sorted) - 1), x), sorted[Len(sorted)])
    ELSE Append(sorted, x)

RECURSIVE SortRows(_)
SortRows(rows) ==
    IF rows = <<>> THEN <<>>
    ELSE InsertRow(SortRows(SubSeq(rows, 1, Len(rows) - 1)), rows[Len(rows)])

\* combined_rows of one main folder: projects -> files, in insertion order
RECURSIVE PerProjectRows(_, _)
PerProjectRows(recs, projs) ==
    IF projs = <<>> THEN <<>>
    ELSE FileAverageRows(InProject(recs, Head(projs)), Head(projs),
                         FilesOf(InProject(recs, Head(projs))))
            \o PerProjectRows(recs, Tail(projs))

CompareFileLevelMainFolder(mf, recs, projs) ==
    ProjectByFileFiles(mf, recs, projs)
        \o <<CombinedByFileFile(mf, SortRows(PerProjectRows(recs, projs)))>>

RECURSIVE CompareFileLevelMainFolders(_, _)
CompareFileLevelMainFolders(recs, mfs) ==
    IF mfs = <<>> THEN <<>>
    ELSE CompareFileLevelMainFolder(Head(mfs), InMainFolder(recs, Head(mfs)),
                                    ProjectsOf(InMainFolder(recs, Head(mfs))))
            \o CompareFileLevelMainFolders(recs, Tail(mfs))

\* a lone main folder compared with itself
ComparedMainFolders_WithItself(mfs) ==
    IF STR_no_reflect \in mfs /\ STR_llm4cpp \in mfs THEN <<STR_no_reflect, STR_llm4cpp>>
    ELSE IF Cardinality(mfs) = 0 THEN <<>>
    ELSE IF Cardinality(mfs) = 1 THEN SortedStrings(mfs) \o SortedStrings(mfs)
    ELSE SubSeq(SortedStrings(mfs), 1, 2)

\* <<mf_city, mf_llm>>, or <<>> when there are not two main folders
ComparedMainFolders(mfs) ==
    IF STR_no_reflect \in mfs /\ STR_llm4cpp \in mfs THEN <<STR_no_reflect, STR_llm4cpp>>
    ELSE IF Cardinality(mfs) < 2 THEN <<>>
    ELSE SubSeq(SortedStrings(mfs), 1, 2)

\* the orders sorted(keys, key=lower...) can give for a set of keys: keys of
\* equal lowered key stay in the iteration order of the set, which the hash
\* seed of the run decides
SortedKeyOrders(keys) ==
    {s \in [1..Cardinality(keys) -> keys] :
        /\ \A i, j \in 1..Cardinality(keys) : i # j => s[i] # s[j]
        /\ \A i, j \in 1..Cardinality(keys) : i < j => ~LowerKeyLess(s[j], s[i])}


\* fmt_total_stmt / fmt_total_branch: '' for no row, 'NaN' as it is, a float
\* with two decimals
fmt_total(avg, field) ==
    IF avg = <<>> THEN <<>>
    ELSE IF avg[1][field].k = "NaN" THEN STR_NaN
    ELSE IF avg[1][field].k = "nan" THEN STR_nan
    ELSE Fixed2(avg[1][field].n)

CompareCells(first, second, city_avg, llm_avg) ==
    [FileName |-> second, Project |-> first,
     city_stmt |-> fmt_total(city_avg, "TotalStatementCoverage"),
     llm_stmt |-> fmt_total(llm_avg, "TotalStatementCoverage"),
     city_branch |-> fmt_total(city_avg, "TotalBranchCoverage"),
     llm_branch |-> fmt_total(llm_avg, "TotalBranchCoverage")]

\* calculate_averages(funcs) if funcs else None
AverageOrNone(funcs) == calculate_averages(funcs)

FileCompareRow(city_recs, llm_recs, key) ==
    CompareCells(key[1], key[2],
                 AverageOrNone(InFile(InProject(city_recs, key[1]), key[2])),
                 AverageOrNone(InFile(InProject(llm_recs, key[1]), key[2])))

CompareFieldnames ==
    {"FileName", "Project", "city_stmt", "llm_stmt", "city_branch", "llm_branch"}

STR_compare_ == <<99, 111, 109, 112, 97, 114, 101, 95>>
STR__vs_ == <<95, 118, 115, 95>>

\* the comparison file, written in coverage_results/ itself (dir <<>>)
FileCompareFile(city_recs, llm_recs, pair, order) ==
    [dir |-> <<>>,
     name |-> STR_coverage_ \o STR_compare_ \o SafeName(pair[1]) \o STR__vs_
                 \o SafeName(pair[2]) \o STR__by_file \o STR_csv,
     fieldnames |-> CompareFieldnames,
     rows |-> [i \in 1..Len(order) |-> FileCompareRow(city_recs, llm_recs, order[i])]]

FileCompareKeys(recs, pair) ==
    IF pair = <<>> THEN {}
    ELSE FileKeys(InMainFolder(recs, pair[1])) \cup FileKeys(InMainFolder(recs, pair[2]))

\* create_main_folder_comparison, the keys coming in the order `order`
create_main_folder_comparison(recs, pair, order) ==
    IF pair = <<>> THEN <<>>
    ELSE <<FileCompareFile(InMainFolder(recs, pair[1]), InMainFolder(recs, pair[2]),
                           pair, order)>>

MainFolderSet(recs) == {recs[i].MainFolder : i \in 1..Len(recs)}

\* what export_to_csv_* prints instead of writing: nothing to export
NoDataToExport(recs) == IF recs = <<>> THEN {"No data to export"} ELSE {}

\* what create_main_folder_comparison(_projects) prints instead of writing
NotEnoughMainFolders(mfs) ==
    IF mfs # {} /\ ~(STR_no_reflect \in mfs /\ STR_llm4cpp \in mfs) /\ Cardinality(mfs) < 2
    THEN {"Not enough main folders to compare."}
    ELSE {}

\* the diagnostics of a run of one of the two comparing scripts
CompareDiagnostics(recs) == NoDataToExport(recs) \cup NotEnoughMainFolders(MainFolderSet(recs))

\* export_to_csv_by_file of compare-file-level-coverage.py: the files written
compare_file_level(recs, order) ==
    CompareFileLevelMainFolders(recs, MainFoldersOf(recs))
        \o create_main_folder_comparison(recs, ComparedMainFolders(MainFolderSet(recs)), order)

----------------------------------------------------------------------------
(* compare-project-level-coverage.py *)

PROJECT_FIELDNAMES == {"Project"} \cup CoverageFields

STR__project_avg == <<95, 112, 114, 111, 106, 101, 99, 116, 95, 97, 118, 103>>
STR_all_projects_ == <<97, 108, 108, 95, 112, 114, 111, 106, 101, 99, 116, 115, 95>>
STR_projects_ == <<112, 114, 111, 106, 101, 99, 116, 115, 95>>

\* the single average row of a project: all its function records averaged
ProjectAverageRow(recs, proj) ==
    ByFileRow(calculate_averages(InProject(recs, proj))[1], <<>>, proj)

ProjectAvgFiles(mf, recs, projs) ==
    [i \in 1..Len(projs) |->
        [dir |-> mf,
         name |-> STR_coverage_ \o SafeName(projs[i]) \o STR__project_avg \o STR_csv,
         fieldnames |-> PROJECT_FIELDNAMES,
         rows |-> <<ProjectAverageRow(recs, projs[i])>>]]

\* sorted(projects.items(), key=lambda x: x[0].lower()) of a dict: stable
AllProjectsFile(mf, recs, projs) ==
    [dir |-> mf, name |-> STR_coverage_ \o STR_all_projects_ \o mf \o STR_csv,
     fieldnames |-> PROJECT_FIELDNAMES,
     rows |-> SortRows([i \in 1..Len(projs) |-> ProjectAverageRow(recs, projs[i])])]

ProjectLevelMainFolder(mf, recs, projs) ==
    ProjectAvgFiles(mf, recs, projs) \o <<AllProjectsFile(mf, recs, projs)>>

RECURSIVE ProjectLevelMainFolders(_, _)
ProjectLevelMainFolders(recs, mfs) ==
    IF mfs = <<>> THEN <<>>
    ELSE ProjectLevelMainFolder(Head(mfs), InMainFolder(recs, Head(mfs)),
                                ProjectsOf(InMainFolder(recs, Head(mfs))))
            \o ProjectLevelMainFolders(recs, Tail(mfs))

\* the project names of a main folder, as keys <<project, ''>>
ProjectNameKeys(recs) == {<<recs[i].Project, <<>>>> : i \in 1..Len(recs)}

ProjectCompareKeys(recs, pair) ==
    IF pair = <<>> THEN {}
    ELSE ProjectNameKeys(InMainFolder(recs, pair[1])) \cup ProjectNameKeys(InMainFolder(recs, pair[2]))

ProjectCompareRow(city_recs, llm_recs, key) ==
    CompareCells(key[1], <<>>,
                 AverageOrNone(InProject(city_recs, key[1])),
                 AverageOrNone(InProject(llm_recs, key[1])))

ProjectCompareFile(city_recs, llm_recs, pair, order) ==
    [dir |-> <<>>,
     name |-> STR_coverage_ \o STR_compare_ \o STR_projects_ \o SafeName(pair[1])
                 \o STR__vs_ \o SafeName(pair[2]) \o STR_csv,
     fieldnames |-> CompareFieldnames \ {"FileName"},
     rows |-> [i \in 1..Len(order) |-> ProjectCompareRow(city_recs, llm_recs, order[i])]]

\* create_main_folder_comparison_projects, the projects coming in the order `order`
create_main_folder_comparison_projects(recs, pair, order) ==
    IF pair = <<>> THEN <<>>
    ELSE <<ProjectCompareFile(InMainFolder(recs, pair[1]), InMainFolder(recs, pair[2]),
                              pair, order)>>

\* export_to_csv_by_project of compare-project-level-coverage.py
compare_project_level(recs, order) ==
    ProjectLevelMainFolders(recs, MainFoldersOf(recs))
        \o create_main_folder_comparison_projects(recs,
               ComparedMainFolders(MainFolderSet(recs)), order)

----------------------------------------------------------------------------
(* The artifact store *)

Pct(x) == x * Unit

CovPayload(stmt, branch, ts, tb) ==
    [st |-> "ok", stmtCov |-> stmt, branchCov |-> branch,
     totalStatements |-> ts, totalBranches |-> tb]

AiPayload(stmt, branch) ==
    [st |-> "ok", statementCoverage |-> stmt, branchCoverage |-> branch]

Folder(mf, proj, ff, fn, cov, ai) ==
    [mf |-> mf, proj |-> proj, ff |-> ff, fn |-> fn, cov |-> cov, ai |-> ai]

BaseCov == CovPayload(JNum(Pct(8)), JNum(Pct(5)), JNum(5), JNum(2))
BaseAi == AiPayload(JNum(Pct(6)), JNum(Pct(5)))

\* initial / total statement values: numbers with more than 2 decimals,
\* numeric text, and the 'nan' texts
InitialStmtSamples == {JNum(Pct(6)), JStr(STR_nan), JNum(Pct(6) + 40000)}
TotalStmtSamples ==
    {JNum(Pct(8)), JStr(STR_NaN), JStr(STR_8_5), JNum(Pct(8) + 60000), JStr(STR_plus_nan)}
TotalCountSamples == {JNum(0), JNum(5)}

\* <<initial branch, total branch, totalBranches>>
BranchSamples ==
    {<<JStr(STR_N_A), JNum(Pct(5)), JNum(2)>>,
     <<JStr(STR_N_A), JNum(Pct(5)), JNum(0)>>,
     <<JNull, JNum(Pct(5) + 4), JMissing>>}

StmtSlice ==
    {Folder(STR_llm4cpp, STR_p, STR_u_cpp, STR_f,
            CovPayload(ts, JNum(Pct(5)), n, JNum(2)),
            AiPayload(is, JNum(Pct(5)))) :
        is \in InitialStmtSamples, ts \in TotalStmtSamples, n \in TotalCountSamples}

BranchSlice ==
    {Folder(STR_llm4cpp, STR_p, STR_u_cpp, STR_g,
            CovPayload(JNum(Pct(8)), b[2], n, b[3]),
            AiPayload(JNum(Pct(6)), b[1])) :
        b \in BranchSamples, n \in TotalCountSamples}

NameSlice ==
    {Folder(STR_no_reflect, STR_q, STR_v_h, STR_f, BaseCov, BaseAi),
     Folder(STR_llm4cpp, STR_q, STR_w, STR_g, BaseCov, BaseAi)}

\* a file of the pair is not there, is not JSON, or is JSON but no object
FailureSlice ==
    {Folder(STR_llm4cpp, STR_p, STR_u_cpp, STR_w, [BaseCov EXCEPT !.st = "absent"], BaseAi),
     Folder(STR_llm4cpp, STR_p, STR_u_cpp, STR_w, BaseCov, [BaseAi EXCEPT !.st = "absent"]),
     Folder(STR_llm4cpp, STR_p, STR_u_cpp, STR_w, [BaseCov EXCEPT !.st = "malformed"], BaseAi),
     Folder(STR_llm4cpp, STR_p, STR_u_cpp, STR_w, BaseCov, [BaseAi EXCEPT !.st = "notdict"])}

ExtractSamples == StmtSlice \cup BranchSlice \cup NameSlice \cup FailureSlice

----------------------------------------------------------------------------
(* missing_log_0.py, and the file listing of a function folder *)

STR_coverage_x_json == <<99, 111, 118, 101, 114, 97, 103, 101, 95, 120, 46, 106, 115, 111, 110>>
STR_x_ai_0_logs_json == <<120, 95, 97, 105, 95, 48, 95, 108, 111, 103, 115, 46, 106, 115, 111, 110>>
STR_x_ai_0_logs_txt == <<120, 95, 97, 105, 95, 48, 95, 108, 111, 103, 115, 46, 116, 120, 116>>
STR_ai_0_logs == <<97, 105, 95, 48, 95, 108, 111, 103, 115>>
STR__ai_0_logs_json == <<95, 97, 105, 95, 48, 95, 108, 111, 103, 115, 46, 106, 115, 111, 110>>

\* sub in s
Contains(s, sub) ==
    \E i \in 1..(Len(s) - Len(sub) + 1) : SubSeq(s, i, i + Len(sub) - 1) = sub

\* coverage_file is set: a name of the listing starts with 'coverage_'
HasCoverageFile(listing) == \E name \in listing : StartsWith(name, STR_coverage_)

\* ai_0_logs_file is set: another name of the listing holds 'ai_0_logs'
HasLogFile(listing) ==
    \E name \in listing : ~StartsWith(name, STR_coverage_) /\ Contains(name, STR_ai_0_logs)

\* a function folder given by the names of its files; the files hold the
\* base payloads
ListedFolder(mf, proj, ff, fn, listing) ==
    [mf |-> mf, proj |-> proj, ff |-> ff, fn |-> fn,
     cov |-> IF HasCoverageFile(listing) THEN BaseCov ELSE [BaseCov EXCEPT !.st = "absent"],
     ai |-> IF HasLogFile(listing) THEN BaseAi ELSE [BaseAi EXCEPT !.st = "absent"],
     listing |-> listing]

\* any(filename.endswith("_ai_0_logs.json") for filename in os.listdir(func_path))
has_ai_logs(listing) == \E filename \in listing : EndsWith(filename, STR__ai_0_logs_json)

MissingEntry(d) ==
    [main_folder |-> d.mf, project |-> d.proj, file |-> d.ff, function |-> d.fn,
     path |-> FunctionPath(d)]

RECURSIVE MissingFrom(_)
MissingFrom(t) ==
    IF t = <<>> THEN <<>>
    ELSE (IF has_ai_logs(Head(t).listing) THEN <<>> ELSE <<MissingEntry(Head(t))>>)
            \o MissingFrom(Tail(t))

check_missing_ai_logs(t) == [st |-> "returned", list |-> MissingFrom(t)]

----------------------------------------------------------------------------
(* Specification of the extractor run *)

Init ==
    /\ tree = <<>>
    /\ results = NotRun
    /\ records = <<>>
    /\ average = [st |-> "none"]
    /\ ablation = [st |-> "none"]
    /\ csv = [st |-> "none"]
    /\ report = [st |-> "none"]
    /\ reportStrict = [st |-> "none"]
    /\ reportSwapped = [st |-> "none"]
    /\ rawValue = [t |-> "unset", s |-> <<>>, n |-> 0]
    /\ coerced = [k |-> "unset", n |-> 0]
    /\ change = [st |-> "none"]
    /\ missing = [st |-> "none"]
    /\ important = [st |-> "none"]
    /\ functionsDiff = [st |-> "none"]

\* the snapshot gets one more function folder (before any script has run)
\* a directory holds one entry of a name
NewPath(d) == \A i \in 1..Len(tree) : FunctionPath(tree[i]) # FunctionPath(d)

AddFunctionFolder(d) ==
    /\ Len(tree) < MaxFolders
    /\ NewPath(d)
    /\ results.st = "none"
    /\ tree' = Append(tree, d)
    /\ UNCHANGED <<results, records, average, ablation, csv, report, reportStrict,
                 reportSwapped, rawValue, coerced, change, missing, important, functionsDiff>>

AnalyzeTestLogs ==
    /\ results.st = "none"
    /\ results' = analyze_test_logs(tree)
    /\ UNCHANGED <<tree, records, average, ablation, csv, report, reportStrict,
                 reportSwapped, rawValue, coerced, change, missing, important, functionsDiff>>

ListFolder == \E d \in ExtractSamples : AddFunctionFolder(d)

Next == ListFolder \/ AnalyzeTestLogs

Spec == Init /\ [][Next]_vars

----------------------------------------------------------------------------
(* Properties of the extractor (checked under Spec) *)

\* both payloads are there and parse to a JSON object
Parses(d) == d.cov.st = "ok" /\ d.ai.st = "ok"

\* the raw value is one of the texts that stand for "not a number"
IsMissingText(raw) == raw.t = "str" /\ Lower(raw.s) \in {STR_nan, STR_n_a}

\* the payload reports a count of zero
ReportsZero(raw) == raw.t = "num" /\ raw.n = 0
ReportsNonZero(raw) == raw.t = "num" /\ raw.n # 0

StmtOperandMissing(d) ==
    /\ ReportsNonZero(d.cov.totalStatements)
    /\ IsMissingText(d.ai.statementCoverage) \/ IsMissingText(d.cov.stmtCov)

BranchOperandMissing(d) ==
    /\ ReportsNonZero(d.cov.totalBranches)
    /\ IsMissingText(d.ai.branchCoverage) \/ IsMissingText(d.cov.branchCov)

\* the index in results.recs of the record of tree[i], when it has one
RecIndex(i) == Cardinality({j \in 1..i : AnalyzeFolder(tree[j]).kind = "record"})

\* C2 (as claimed): every function folder whose two payloads parse yields a
\* record, and when the initial or total value of a kind is Missing (with a
\* non-zero denominator) the record's change field of that kind is Missing.
C2_MissingPropagation ==
    results.st = "returned" =>
        LET ps == SelectSeq(tree, Parses)
        IN  /\ Len(results.recs) = Len(ps)
            /\ \A i \in 1..Len(ps) :
                /\ StmtOperandMissing(ps[i]) =>
                       results.recs[i].StatementCoverageChange = NaN
                /\ BranchOperandMissing(ps[i]) =>
                       results.recs[i].BranchCoverageChange = NaN

\* the same folder with a benign statement side (5 statements, 0 and 0)
WithPlainStatements(d) ==
    [d EXCEPT !.cov.totalStatements = JNum(5), !.cov.stmtCov = JNum(0),
              !.ai.statementCoverage = JNum(0)]

WithPlainBranches(d) ==
    [d EXCEPT !.cov.totalBranches = JNum(5), !.cov.branchCov = JNum(0),
              !.ai.branchCoverage = JNum(0)]

BadFolder(d) == ~Parses(d)
GoodFolder(d) == Parses(d)

\* C4: with bad function folders in the tree, analyze_test_logs returns, and
\* returns exactly the records (values and order) of the run over the tree
\* without them; a bad folder has no record.
C4_FailureIsLocal ==
    results.st # "none" =>
        /\ results.st = "returned"
        /\ results.recs = analyze_test_logs(SelectSeq(tree, GoodFolder)).recs
        /\ Len(results.recs) <= Len(SelectSeq(tree, GoodFolder))

\* C4 witness: a run over a tree holding a bad folder followed by a folder
\* that yields a record
C4_Witness ==
    /\ results.st = "returned"
    /\ \E i, j \in 1..Len(tree) :
        /\ i < j
        /\ BadFolder(tree[i])
        /\ tree[i].ai.st = "notdict"
        /\ GoodFolder(tree[j])
        /\ Len(results.recs) = 1
        /\ results.recs[1].FunctionName = tree[j].fn

\* C13 (as claimed): in every emitted record whose three fields of a kind
\* are numbers, the emitted change is the emitted total minus the emitted
\* initial value, also when the raw values have more than two decimals.
C13_ChangeOfEmitted ==
    results.st = "returned" =>
        \A i \in 1..Len(results.recs) :
            LET r == results.recs[i]
            IN  /\ (r.InitialStatementCoverage.k = "num" /\ r.TotalStatementCoverage.k = "num"
                        /\ r.StatementCoverageChange.k = "num")
                    => r.StatementCoverageChange.n
                           = r.TotalStatementCoverage.n - r.InitialStatementCoverage.n
                /\ (r.InitialBranchCoverage.k = "num" /\ r.TotalBranchCoverage.k = "num"
                        /\ r.BranchCoverageChange.k = "num")
                    => r.BranchCoverageChange.n
                           = r.TotalBranchCoverage.n - r.InitialBranchCoverage.n

\* the folder of tree[i] has a record in results.recs
HasRecord(i) ==
    \E k \in 1..Len(results.recs) :
        /\ results.recs[k].MainFolder = tree[i].mf
        /\ results.recs[k].Project = tree[i].proj
        /\ results.recs[k].FunctionName = tree[i].fn

----------------------------------------------------------------------------
(* Specification of a calculate_averages call on a list of records *)

Rec(is, ts, sc, ib, tb, bc) ==
    [FunctionName |-> STR_f, FileName |-> <<117, 46, 99, 112, 112>>,
     Project |-> STR_p, MainFolder |-> STR_llm4cpp,
     InitialStatementCoverage |-> is, TotalStatementCoverage |-> ts,
     StatementCoverageChange |-> sc,
     InitialBranchCoverage |-> ib, TotalBranchCoverage |-> tb,
     BranchCoverageChange |-> bc]

\* <<initial, total, change>> of one kind
StmtTriples ==
    {<<Num(Pct(6)), Num(Pct(8)), Num(Pct(2))>>,
     <<NaN, NaN, NaN>>,
     <<Num(0), Num(Cent), Num(Cent)>>,
     <<Num(333 * Cent), Num(334 * Cent), Num(Cent)>>,
     <<Num(Pct(8)), Num(606 * Cent), Num(-194 * Cent)>>}

BranchTriples ==
    {<<Num(Pct(5)), Num(Pct(5)), Num(0)>>,
     <<NaN, Num(Pct(1)), NaN>>,
     <<NaN, NaN, NaN>>}

RecordSamples ==
    {Rec(s[1], s[2], s[3], b[1], b[2], b[3]) : s \in StmtTriples, b \in BranchTriples}

AppendRecord(r) ==
    /\ Len(records) < MaxRecords
    /\ average.st = "none"
    /\ records' = Append(records, r)
    /\ UNCHANGED <<tree, results, average, ablation, csv, report, reportStrict,
                 reportSwapped, rawValue, coerced, change, missing, important, functionsDiff>>

CalculateAverages ==
    /\ average.st = "none"
    /\ average' = [st |-> "done", out |-> calculate_averages(records)]
    /\ UNCHANGED <<tree, results, records, ablation, csv, report, reportStrict,
                 reportSwapped, rawValue, coerced, change, missing, important, functionsDiff>>

PassRecord == \E r \in RecordSamples : AppendRecord(r)

NextAverages == PassRecord \/ CalculateAverages

SpecAverages == Init /\ [][NextAverages]_vars

\* the indices of the records whose field is a number
NumericAt(field) == {i \in 1..Len(records) : records[i][field].k = "num"}

RECURSIVE SumOver(_, _)
SumOver(field, I) ==
    IF I = {} THEN 0
    ELSE LET i == CHOOSE x \in I : TRUE
         IN  records[i][field].n + SumOver(field, I \ {i})

\* C1: calculate_averages returns None exactly for the empty list; otherwise
\* each of the six fields is the mean of the non-Missing inputs of that field
\* rounded to a hundredth (Missing inputs count neither in the sum nor in the
\* divisor), and is Missing, never 0, when every input of the field is Missing.
C1_Averages ==
    average.st = "done" =>
        /\ (average.out = <<>>) <=> (records = <<>>)
        /\ average.out # <<>> =>
            \A field \in CoverageFields :
                LET I == NumericAt(field)
                    c == Cardinality(I)
                    out == average.out[1][field]
                IN  IF I = {} THEN out = NaN
                    ELSE /\ out.k = "num"
                         /\ out.n % Cent = 0
                         /\ 2 * Abs(out.n * c - SumOver(field, I)) <= c * Cent

\* C1 witness: an average over three records in which one field has a Missing
\* input and numeric inputs (mean of the two numbers), and another field is
\* Missing in every record
C1_Witness ==
    /\ average.st = "done"
    /\ Len(records) = 3
    /\ Cardinality(NumericAt("TotalStatementCoverage")) = 2
    /\ average.out[1].TotalStatementCoverage = Num(703 * Cent)
    /\ NumericAt("InitialBranchCoverage") = {}
    /\ average.out[1].InitialBranchCoverage = NaN

----------------------------------------------------------------------------
(* Specification of a two-level average: calculate_averages over the rows *)
(* that calculate_averages returned for two groups of records, as         *)
(* average_across_projects of ablation.py does with the per-project rows  *)

average_of_averages_FirstGroup(A, B) == calculate_averages(A)

\* rows = [calculate_averages(A), calculate_averages(B)]; calculate_averages(rows)
average_of_averages(A, B) ==
    calculate_averages(calculate_averages(A) \o calculate_averages(B))

RollupSamples ==
    {Rec(Num(Pct(6)), Num(Pct(8)), Num(Pct(2)), Num(Pct(5)), Num(Pct(5)), Num(0)),
     Rec(NaN, NaN, NaN, NaN, Num(Pct(1)), NaN),
     Rec(Num(0), Num(Pct(5)), Num(Pct(5)), NaN, NaN, NaN),
     Rec(Num(333 * Cent), Num(Pct(6)), Num(267 * Cent), Num(Pct(5)), Num(Pct(5)), Num(0))}

AppendRollupRecord(r) ==
    /\ Len(records) < MaxRecords + 1
    /\ average.st = "none"
    /\ records' = Append(records, r)
    /\ UNCHANGED <<tree, results, average, ablation, csv, report, reportStrict,
                 reportSwapped, rawValue, coerced, change, missing, important, functionsDiff>>

PassRollupRecord == \E r \in RollupSamples : AppendRollupRecord(r)

\* the records in two groups, the first k and the others
RollUp(k) ==
    /\ average.st = "none"
    /\ average' = [st |-> "rolled",
                   a |-> SubSeq(records, 1, k),
                   b |-> SubSeq(records, k + 1, Len(records)),
                   whole |-> calculate_averages(records),
                   rolled |-> average_of_averages(SubSeq(records, 1, k),
                                                  SubSeq(records, k + 1, Len(records)))]
    /\ UNCHANGED <<tree, results, records, ablation, csv, report, reportStrict,
                 reportSwapped, rawValue, coerced, change, missing, important, functionsDiff>>

RollUpGroups == \E k \in 1..(Len(records) - 1) : RollUp(k)

NextRollup == PassRollupRecord \/ RollUpGroups

SpecRollup == Init /\ [][NextRollup]_vars

\* C14 (as claimed): for two non-empty groups of equal size, the average of
\* the two group averages equals the average of all the records of the two
\* groups, on each of the six fields.
C14_RollupEqualsUnion ==
    (average.st = "rolled" /\ Len(average.a) = Len(average.b)) =>
        \A field \in CoverageFields : average.rolled[1][field] = average.whole[1][field]

\* the field is a number in every record of the group, or in none
Uniform(rs, field) ==
    \/ \A i \in 1..Len(rs) : rs[i][field].k = "num"
    \/ \A i \in 1..Len(rs) : rs[i][field].k # "num"

\* C14 (amended): for two non-empty groups of equal size and a field that, in
\* each group, is a number in every record or Missing in every record, the
\* average of the two group averages is Missing exactly when the average of
\* all records is, and otherwise is within one hundredth of it.
C14_RollupWithinAHundredth ==
    (average.st = "rolled" /\ Len(average.a) = Len(average.b)) =>
        \A field \in CoverageFields :
            (Uniform(average.a, field) /\ Uniform(average.b, field)) =>
                IF average.whole[1][field].k = "num"
                THEN /\ average.rolled[1][field].k = "num"
                     /\ Abs(average.rolled[1][field].n - average.whole[1][field].n) <= Cent
                ELSE average.rolled[1][field] = average.whole[1][field]

\* C14 witness: two groups of two records; total statement coverage is
\* Missing in the whole first group (both averages are the mean 7 of the
\* second), total branch coverage a number in all four records (1, 1, 5, 5:
\* both averages are 3)
C14_Witness ==
    /\ average.st = "rolled"
    /\ Len(average.a) = 2
    /\ Len(average.b) = 2
    /\ \A i \in 1..2 : average.a[i].TotalStatementCoverage = NaN
    /\ average.rolled[1].TotalStatementCoverage = Num(Pct(7))
    /\ average.whole[1].TotalStatementCoverage = Num(Pct(7))
    /\ \A i \in 1..2 : average.a[i].TotalBranchCoverage = Num(Pct(1))
    /\ average.rolled[1].TotalBranchCoverage = Num(Pct(3))
    /\ average.whole[1].TotalBranchCoverage = Num(Pct(3))

----------------------------------------------------------------------------
(* Specification of a to_coverage_value call on one JSON value *)

MaxLen == 3

\* letters of 'nan' and 'n/a' in both cases, a digit, the point, a sign and
\* a blank
CoerceAlphabet == {110, 97, 78, 65, 47, 49, 46, 45, 32}

\* the texts of up to MaxLen characters; those with more than three digits
\* are left out (a number of four digits, in Unit-ths, is beyond 2^31)
CoerceTexts ==
    {s \in UNION {[1..n -> CoerceAlphabet] : n \in 0..MaxLen} :
        Cardinality({i \in DOMAIN s : IsDigit(s[i])}) <= 3}

JBool(b) == [t |-> "bool", s |-> <<>>, n |-> IF b THEN 1 ELSE 0]
JNan == [t |-> "nan", s |-> <<>>, n |-> 0]
JList == [t |-> "list", s |-> <<>>, n |-> 0]

CoerceValues ==
    {JStr(s) : s \in CoerceTexts}
        \cup {JNull, JNan, JList, JBool(TRUE), JBool(FALSE),
              JNum(0), JNum(Pct(8)), JNum(-Pct(5)), JNum(Pct(6) + 40000)}

PassValue(v) ==
    /\ rawValue.t = "unset"
    /\ rawValue' = v
    /\ UNCHANGED <<tree, results, records, average, ablation, csv, report, reportStrict,
                 reportSwapped, coerced, change, missing, important, functionsDiff>>

ReadValue == \E v \in CoerceValues : PassValue(v)

ToCoverageValue ==
    /\ rawValue.t # "unset"
    /\ coerced.k = "unset"
    /\ coerced' = to_coverage_value(rawValue)
    /\ UNCHANGED <<tree, results, records, average, ablation, csv, report, reportStrict,
                 reportSwapped, rawValue, change, missing, important, functionsDiff>>

NextCoerce == ReadValue \/ ToCoverageValue

SpecCoerce == Init /\ [][NextCoerce]_vars

\* the text is 'nan' or 'n/a' in some letter case
IsNanText(s) ==
    /\ Len(s) = 3
    /\ s[1] \in {110, 78}
    /\ (s[2] \in {97, 65} /\ s[3] \in {110, 78}) \/ (s[2] = 47 /\ s[3] \in {97, 65})

\* C20: to_coverage_value returns for every input (a number, Missing, or a
\* float nan; never an exception): 0 for null, Missing for a text that is
\* 'nan' or 'n/a' in any letter case, 0 for the empty text, for any other
\* text the number float() reads from it and 0 when float() rejects it, and
\* a JSON number as it is.
C20_Coercion ==
    coerced.k # "unset" =>
        /\ coerced.k \in {"num", "NaN", "nan"}
        /\ rawValue.t = "null" => coerced = Num(0)
        /\ rawValue.t = "num" => coerced = Num(rawValue.n)
        /\ rawValue.t = "str" =>
            IF IsNanText(rawValue.s) THEN coerced = NaN
            ELSE IF rawValue.s = <<>> THEN coerced = Num(0)
            ELSE IF PyFloat(rawValue.s).k = "ValueError" THEN coerced = Num(0)
            ELSE coerced = PyFloat(rawValue.s)
        /\ rawValue.t \notin {"null", "num", "str"} => coerced.k \in {"num", "nan"}

\* C20 witness: the call returned Missing for 'n/a' written with a capital
\* letter
C20_Witness ==
    /\ rawValue.t = "str"
    /\ Lower(rawValue.s) = STR_n_a
    /\ rawValue.s # STR_n_a
    /\ coerced = NaN

----------------------------------------------------------------------------
(* Specification of an ablation.py run *)

AblationFolder(mf, proj, ff, is, ts, ib) ==
    Folder(mf, proj, ff, STR_f,
           CovPayload(JNum(ts), JNum(Pct(5)), JNum(5), JNum(2)),
           AiPayload(JNum(is), JNum(ib)))

AblationSamples ==
    {AblationFolder(STR_llm4cpp, proj, ff, v[1], v[2], Pct(5)) :
        proj \in {STR_p, STR_q}, ff \in {STR_u_cpp, STR_v_h},
        v \in {<<Pct(6), Pct(8)>>, <<0, Pct(8)>>}}
    \cup {AblationFolder(STR_no_reflect, STR_p, ff, Pct(6), Pct(7), Pct(4)) :
            ff \in {STR_u_cpp, STR_v_h}}
    \cup {AblationFolder(STR_no_context, STR_p, STR_u_cpp, Pct(6), Pct(7) + 50 * Cent, 0),
          AblationFolder(STR_citywalk, STR_p, STR_w, Pct(6), Pct(7), Pct(5)),
          AblationFolder(STR_llm4cpp, STR_p, STR_v_h, Pct(5), Pct(7) + 2 * Cent, Pct(4))}

CreateAblationTables ==
    /\ ablation.st = "none"
    /\ ablation' = create_ablation_tables(tree)
    /\ UNCHANGED <<tree, results, records, average, csv, report, reportStrict,
                 reportSwapped, rawValue, coerced, change, missing, important, functionsDiff>>

AddAblationFolder(d) ==
    /\ Len(tree) < MaxFolders + 2
    /\ NewPath(d)
    /\ ablation.st = "none"
    /\ tree' = Append(tree, d)
    /\ UNCHANGED <<results, records, average, ablation, csv, report, reportStrict,
                 reportSwapped, rawValue, coerced, change, missing, important, functionsDiff>>

ListAblationFolder == \E d \in AblationSamples : AddAblationFolder(d)

NextAblation == ListAblationFolder \/ CreateAblationTables

SpecAblation == Init /\ [][NextAblation]_vars

\* the baseline's per-file average, as the tables' input defines it
BaselineAverage(fname) ==
    average_across_projects(load_project_file_averages(tree), STR_llm4cpp, fname).row

\* -(total - initial) of two operands, Missing when one of them is Missing
NegatedImprovement(total, initial) ==
    IF total.k = "num" /\ initial.k = "num" THEN Num(-(total.n - initial.n)) ELSE None

\* C5 (as claimed): in both tables, the W/o iteration cell of every file
\* column is -(full.total - full.initial) of the baseline's per-file average
\* when both operands are numbers (0 included), and Missing exactly when an
\* operand is Missing.
C5_WithoutIteration ==
    ablation.st = "written" =>
        \A i \in 1..Len(ablation.files) :
            LET llm == BaselineAverage(ablation.files[i])
            IN  /\ ablation.statement.iteration.cells[i] =
                     NegatedImprovement(FieldOrNone(llm, "TotalStatementCoverage"),
                                        FieldOrNone(llm, "InitialStatementCoverage"))
                /\ ablation.branch.iteration.cells[i] =
                     NegatedImprovement(FieldOrNone(llm, "TotalBranchCoverage"),
                                        FieldOrNone(llm, "InitialBranchCoverage"))

\* a variant's per-file average; a variant without records has none
VariantAverage(mf, fname) ==
    IF \E i \in 1..Len(tree) : tree[i].mf = mf
    THEN average_across_projects(load_project_file_averages(tree), mf, fname).row
    ELSE <<>>

\* ablated.total - full.total to the hundredth when both averages are there
\* and numbers, Missing when a variant has no average
ExpectedContribution(ablated, full, field, cell) ==
    IF ablated = <<>> \/ full = <<>> THEN cell = None
    ELSE (ablated[1][field].k = "num" /\ full[1][field].k = "num")
            => /\ cell.k = "num"
               /\ 2 * Abs(cell.n - (ablated[1][field].n - full[1][field].n)) <= Cent

\* C12 (as claimed): create_ablation_tables completes and writes both
\* tables whatever variants have records, and in them the W/o reflection
\* and W/o context cells of every file column are ablated.total - full.total
\* when both variants have an average for the file, Missing when either has
\* none (a variant without any record included).
C12_ContributionRows ==
    ablation.st # "none" =>
        /\ ablation.st = "written"
        /\ \A i \in 1..Len(ablation.files) :
              LET full == VariantAverage(STR_llm4cpp, ablation.files[i])
                  ref == VariantAverage(STR_no_reflect, ablation.files[i])
                  nct == VariantAverage(STR_no_context, ablation.files[i])
              IN  /\ ExpectedContribution(ref, full, "TotalStatementCoverage",
                                          ablation.statement.reflect.cells[i])
                  /\ ExpectedContribution(nct, full, "TotalStatementCoverage",
                                          ablation.statement.context.cells[i])
                  /\ ExpectedContribution(ref, full, "TotalBranchCoverage",
                                          ablation.branch.reflect.cells[i])
                  /\ ExpectedContribution(nct, full, "TotalBranchCoverage",
                                          ablation.branch.context.cells[i])

\* the file names of the extracted records of the variants `mfs`
ObservedFileNames(mfs) ==
    {analyze_test_logs(tree).recs[i].FileName :
        i \in {j \in 1..Len(analyze_test_logs(tree).recs) :
                  analyze_test_logs(tree).recs[j].MainFolder \in mfs}}

\* the columns are the names of S, each once, in sorted order
IsSortedColumns(files, S) ==
    /\ {files[i] : i \in 1..Len(files)} = S
    /\ \A i, j \in 1..Len(files) : i < j => StrLess(files[i], files[j])

RECURSIVE CellSum(_, _)
CellSum(cells, I) ==
    IF I = {} THEN 0
    ELSE LET i == CHOOSE x \in I : TRUE
         IN  cells[i].n + CellSum(cells, I \ {i})

\* Avg is Missing for a row without values, else the mean of the row's
\* values to the hundredth (not a number when a value is not a number)
IsRowMean(cells, I, avg) ==
    IF I = {} THEN avg = None
    ELSE IF \E i \in I : cells[i].k # "num" THEN avg.k = "nan"
    ELSE /\ avg.k = "num"
         /\ avg.n % Cent = 0
         /\ 2 * Abs(avg.n * Cardinality(I) - CellSum(cells, I)) <= Cardinality(I) * Cent

\* a row has one cell per file column and its Avg is the mean of its values
IsTableRow(row, n) ==
    /\ Len(row.cells) = n
    /\ IsRowMean(row.cells, {i \in 1..Len(row.cells) : row.cells[i].k # "None"}, row.avg)

AreTablesOver(S) ==
    /\ IsSortedColumns(ablation.files, S)
    /\ \A name \in {"llm4cpp", "iteration", "reflect", "context"} :
          /\ IsTableRow(ablation.statement[name], Len(ablation.files))
          /\ IsTableRow(ablation.branch[name], Len(ablation.files))

AllVariants == {tree[i].mf : i \in 1..Len(tree)}

\* C22 (as claimed): the columns of each written table are the file names
\* of the extracted records of all variants, each once and sorted; each of
\* the four rows has one cell per column and its Avg is the mean of the
\* row's non-Missing cells to the hundredth, Missing when it has none.
C22_TableColumns == ablation.st = "written" => AreTablesOver(ObservedFileNames(AllVariants))

\* C22 (amended): the same, the columns being the file names of the
\* extracted records of the variants llm4cpp, no_reflect and no_context.
C22_TableColumnsOfAblatedVariants ==
    ablation.st = "written"
        => AreTablesOver(ObservedFileNames({STR_llm4cpp, STR_no_reflect, STR_no_context}))

\* tables with two file columns: the baseline row holds two different
\* values and their mean, the W/o context row one value and one Missing cell
C22_Witness ==
    /\ ablation.st = "written"
    /\ ablation.files = <<FileNameOf(STR_u_cpp), FileNameOf(STR_v_h)>>
    /\ ablation.statement.llm4cpp.cells = <<Num(Pct(8)), Num(Pct(7) + 2 * Cent)>>
    /\ ablation.statement.llm4cpp.avg = Num(Pct(7) + 51 * Cent)
    /\ ablation.statement.context.cells[2] = None
    /\ ablation.statement.context.avg = ablation.statement.context.cells[1]
    /\ ablation.statement.context.avg.k = "num"

----------------------------------------------------------------------------
(* Specification of the function-level comparison: analyze_coverage.py     *)
(* writes coverage_results/, then the two comparison scripts read it       *)

STR_a == <<97>>
STR_B == <<66>>
STR_sp_nan == <<32, 110, 97, 110>>

CompareFolder(mf, proj, fn, ts, tb) ==
    Folder(mf, proj, STR_u_cpp, fn, CovPayload(ts, tb, JNum(5), JNum(2)), BaseAi)

\* total statement 0 with a branch value that float() reads as nan, equal
\* values on both sides, a difference of one hundredth, a negative
\* difference, and one function name in two projects and in two files of a
\* variant
CompareSamples ==
    {CompareFolder(STR_citywalk, STR_p, STR_a, JNum(0), JStr(STR_sp_nan)),
     CompareFolder(STR_citywalk, STR_p, STR_a, JNum(Pct(8)), JNum(Pct(5))),
     CompareFolder(STR_citywalk, STR_p, STR_B, JNum(Pct(8)), JNum(Pct(5))),
     CompareFolder(STR_llm4cpp, STR_p, STR_a, JNum(0), JStr(STR_sp_nan)),
     CompareFolder(STR_llm4cpp, STR_p, STR_a, JNum(Pct(8) + Cent), JNum(Pct(5))),
     CompareFolder(STR_llm4cpp, STR_p, STR_B, JNum(Pct(8) + Cent), JNum(Pct(5))),
     CompareFolder(STR_llm4cpp, STR_q, STR_a, JNum(Pct(8)), JNum(Pct(6))),
     CompareFolder(STR_citywalk, STR_p, STR_B, JStr(STR_8_5), JNum(Pct(5))),
     Folder(STR_llm4cpp, STR_p, STR_v_h, STR_a,
            CovPayload(JNum(Pct(6)), JNum(Pct(5)), JNum(5), JNum(2)), BaseAi)}

AddCompareFolder(d) ==
    /\ Len(tree) < MaxFolders + 2
    /\ NewPath(d)
    /\ csv.st = "none"
    /\ tree' = Append(tree, d)
    /\ UNCHANGED <<results, records, average, ablation, csv, report, reportStrict,
                 reportSwapped, rawValue, coerced, change, missing, important, functionsDiff>>

ListCompareFolder == \E d \in CompareSamples : AddCompareFolder(d)

\* main() of analyze_coverage.py
AnalyzeCoverage ==
    /\ csv.st = "none"
    /\ results' = analyze_test_logs(tree)
    /\ csv' = [st |-> "written", files |-> export_to_csv_by_project(results'.recs)]
    /\ UNCHANGED <<tree, records, average, ablation, report, reportStrict,
                 reportSwapped, rawValue, coerced, change, missing, important, functionsDiff>>

GenerateCoverageComparison ==
    /\ csv.st = "written"
    /\ report.st = "none"
    /\ report' = generate_coverage_comparison(csv.files)
    /\ UNCHANGED <<tree, results, records, average, ablation, csv, reportStrict,
                 reportSwapped, rawValue, coerced, change, missing, important, functionsDiff>>

GenerateCoverageComparisonStrict ==
    /\ csv.st = "written"
    /\ reportStrict.st = "none"
    /\ reportStrict' = generate_coverage_comparison_filter_cw_nonzero(csv.files)
    /\ UNCHANGED <<tree, results, records, average, ablation, csv, report,
                 reportSwapped, rawValue, coerced, change, missing, important, functionsDiff>>

NextCompare ==
    \/ ListCompareFolder
    \/ AnalyzeCoverage
    \/ GenerateCoverageComparison
    \/ GenerateCoverageComparisonStrict

SpecCompare == Init /\ [][NextCompare]_vars

\* Missing, not-a-number, or within 1e-9 of zero (a float is n / Unit and
\* 1 / Unit is more than 1e-9, so only n = 0 is that close)
ZeroOrMissing(v) == v.k \in {"None", "nan"} \/ (v.k = "num" /\ v.n = 0)

\* llm - cw to the hundredth, Missing when a side is Missing
ExpectedDelta(llm, cw, delta) ==
    IF llm.k = "num" /\ cw.k = "num"
    THEN delta.k = "num" /\ 2 * Abs(delta.n - (llm.n - cw.n)) <= Cent
    ELSE delta = None

InReport(rep, func) == \E i \in 1..Len(rep.rows) : rep.rows[i].func = func

\* C6: the standard report drops a function row exactly when its statement
\* delta and its branch delta are both zero-or-missing, the deltas being
\* llm4cpp - citywalk of the two total coverages.
C6_StandardFilter ==
    report.st = "written" =>
        \A i \in 1..Len(report.all_rows) :
            LET row == report.all_rows[i]
            IN  /\ ExpectedDelta(row.llm_stmt, row.cw_stmt, row.stmt_delta)
                /\ ExpectedDelta(row.llm_branch, row.cw_branch, row.branch_delta)
                /\ ~InReport(report, row.func)
                      <=> (ZeroOrMissing(row.stmt_delta) /\ ZeroOrMissing(row.branch_delta))
                /\ InReport(report, row.func) => \E j \in 1..Len(report.rows) : report.rows[j] = row

\* C6 witness: a report for which a row with statement delta 0 and a Missing
\* branch delta was dropped and a row with statement delta 0.01 (branch
\* delta 0) was retained
C6_Witness ==
    /\ report.st = "written"
    /\ \E i \in 1..Len(report.all_rows) :
          /\ report.all_rows[i].stmt_delta = Num(0)
          /\ report.all_rows[i].branch_delta = None
          /\ ~InReport(report, report.all_rows[i].func)
    /\ \E i \in 1..Len(report.all_rows) :
          /\ report.all_rows[i].stmt_delta = Num(Cent)
          /\ report.all_rows[i].branch_delta = Num(0)
          /\ InReport(report, report.all_rows[i].func)

\* the values of a field in a variant's records of one function name
ValuesOf(mf, func, field) ==
    Column(SelectSeq(results.recs, LAMBDA r : r.MainFolder = mf /\ r.FunctionName = func), field)

\* out is the mean, to the hundredth, of the numbers among values, and
\* Missing when there is none
IsMeanOfAll(values, out) ==
    LET nums == SelectSeq(values, IsNum)
    IN  IF nums = <<>> THEN out = None
        ELSE /\ out.k = "num"
             /\ 2 * Abs(out.n * Len(nums) - SumOf(nums)) <= Len(nums) * Cent

\* C7 (as claimed): every function of the comparison is compared on the
\* NaN-skipping mean of ALL records of the variant that carry its name, for
\* both variants and both coverage kinds.
C7_AggregateOfAll ==
    report.st = "written" =>
        \A i \in 1..Len(report.all_rows) :
            LET row == report.all_rows[i]
            IN  /\ IsMeanOfAll(ValuesOf(STR_citywalk, row.func, "TotalStatementCoverage"), row.cw_stmt)
                /\ IsMeanOfAll(ValuesOf(STR_llm4cpp, row.func, "TotalStatementCoverage"), row.llm_stmt)
                /\ IsMeanOfAll(ValuesOf(STR_citywalk, row.func, "TotalBranchCoverage"), row.cw_branch)
                /\ IsMeanOfAll(ValuesOf(STR_llm4cpp, row.func, "TotalBranchCoverage"), row.llm_branch)

\* the function names of the two compared variants' records
ComparedNames ==
    {results.recs[i].FunctionName :
        i \in {j \in 1..Len(results.recs) :
                  results.recs[j].MainFolder \in {STR_citywalk, STR_llm4cpp}}}

\* keys is the set S, each key once, in case-insensitive order
IsSortedUnion(keys, S) ==
    /\ {keys[i] : i \in 1..Len(keys)} = S
    /\ \A i, j \in 1..Len(keys) : i < j =>
          /\ keys[i] # keys[j]
          /\ ~StrLess(Lower(keys[j]), Lower(keys[i]))

\* C8 (as claimed): before filtering, the keys of the function-level reports
\* are the union of the two variants' function names, each once, ordered
\* case-insensitively.
C8_KeysSortedCaseInsensitively ==
    /\ report.st = "written" => IsSortedUnion(report.all_funcs, ComparedNames)
    /\ reportStrict.st = "written" => IsSortedUnion(reportStrict.all_funcs, ComparedNames)

\* the deltas of a kind in the retained rows, Missing ones left out
RetainedDeltas(field) == SelectSeq(Column(report.rows, field), IsNum)

\* the AVERAGE line's value and cell for one kind of delta
IsAverageOfRetained(field, avg, cell) ==
    LET deltas == RetainedDeltas(field)
    IN  IF deltas = <<>> THEN avg = None /\ cell = <<>>
        ELSE /\ avg.k = "num"
             /\ avg.n % Cent = 0
             /\ 2 * Abs(avg.n * Len(deltas) - SumOf(deltas)) <= Len(deltas) * Cent
             /\ PyFloat(cell) = avg

\* C9: the last line of the standard report is the AVERAGE line; its
\* statement and branch cells hold the mean, to the hundredth, of the
\* non-Missing deltas of the retained rows only, and are empty when the
\* retained rows have no such delta.
C9_AverageOfRetained ==
    report.st = "written" =>
        LET line == report.lines[Len(report.lines)]
        IN  /\ Len(report.lines) = Len(report.rows) + 1
            /\ line[1] = STR_AVERAGE
            /\ IsAverageOfRetained("stmt_delta", report.avg_stmt_delta, line[4])
            /\ IsAverageOfRetained("branch_delta", report.avg_branch_delta, line[7])

\* C9 witness: one row with a numeric statement delta (0) was dropped, one
\* with statement delta 0.01 was retained, and the AVERAGE line shows 0.01
C9_Witness ==
    /\ report.st = "written"
    /\ \E i \in 1..Len(report.all_rows) :
          /\ report.all_rows[i].stmt_delta = Num(0)
          /\ ~InReport(report, report.all_rows[i].func)
    /\ Len(report.rows) = 1
    /\ report.rows[1].stmt_delta = Num(Cent)
    /\ report.avg_stmt_delta = Num(Cent)
    /\ report.lines[2][4] = <<48, 46, 48, 49>>
    /\ report.avg_branch_delta = Num(0)

\* the function lines of the standard report whose citywalk statement
\* coverage is not within 1e-9 of zero
StandardMinusCwZero ==
    {report.lines[i] :
        i \in {j \in 1..Len(report.rows) :
                  ~(report.rows[j].cw_stmt.k = "num" /\ report.rows[j].cw_stmt.n = 0)}}

\* C10: run on the same coverage_results/, the strict report's function
\* lines are the standard report's function lines without those whose
\* citywalk statement coverage is within 1e-9 of zero; no function is in
\* the strict report that is not in the standard one.
C10_StrictIsStandardMinusCwZero ==
    (report.st = "written" /\ reportStrict.st = "written") =>
        /\ {reportStrict.lines[i] : i \in 1..Len(reportStrict.lines)} = StandardMinusCwZero
        /\ Len(reportStrict.lines) = Cardinality(StandardMinusCwZero)
        /\ \A i \in 1..Len(reportStrict.rows) : InReport(report, reportStrict.rows[i].func)

\* C10 witness: the standard report retains a function whose citywalk
\* statement coverage is 0 (delta 8.01) and another one whose is not; the
\* strict report holds only the second
C10_Witness ==
    /\ report.st = "written"
    /\ reportStrict.st = "written"
    /\ Len(report.rows) = 2
    /\ \E i \in 1..2 : report.rows[i].cw_stmt = Num(0) /\ report.rows[i].stmt_delta = Num(Pct(8) + Cent)
    /\ Len(reportStrict.rows) = 1
    /\ reportStrict.rows[1].cw_stmt = Num(Pct(8))
    /\ InReport(report, reportStrict.rows[1].func)

----------------------------------------------------------------------------
(* Specification of the function-level comparison run on a snapshot and  *)
(* on the same snapshot with the records of citywalk and llm4cpp         *)
(* exchanged                                                             *)

SwappedVariant(mf) ==
    IF mf = STR_citywalk THEN STR_llm4cpp
    ELSE IF mf = STR_llm4cpp THEN STR_citywalk
    ELSE mf

\* the tree with the folders of citywalk under llm4cpp and the other way round
SwapVariants(t) == [i \in 1..Len(t) |-> [t[i] EXCEPT !.mf = SwappedVariant(t[i].mf)]]

\* analyze_coverage.py, then generate_coverage_comparison.py, on a tree
ComparisonOf(t) ==
    generate_coverage_comparison(export_to_csv_by_project(analyze_test_logs(t).recs))

CompareBothWays ==
    /\ csv.st = "written"
    /\ report.st = "none"
    /\ report' = generate_coverage_comparison(csv.files)
    /\ reportSwapped' = ComparisonOf(SwapVariants(tree))
    /\ UNCHANGED <<tree, results, records, average, ablation, csv, reportStrict,
                 rawValue, coerced, change, missing, important, functionsDiff>>

NextSymmetry == ListCompareFolder \/ AnalyzeCoverage \/ CompareBothWays

SpecSymmetry == Init /\ [][NextSymmetry]_vars

\* minus the delta, Missing for Missing
IsNegationOf(d, e) == IF d.k = "num" THEN e.k = "num" /\ e.n = -d.n ELSE e = d

\* C15: the comparison of a snapshot and the comparison of the snapshot with
\* the two variants exchanged complete alike and retain the same keys; for
\* every retained key the statement and branch delta of one is minus that of
\* the other, Missing staying Missing, the operands are exchanged, and each
\* delta is the second variant (llm4cpp side) minus the first (citywalk side).
C15_ComparisonSymmetry ==
    report.st # "none" =>
        /\ reportSwapped.st = report.st
        /\ report.st = "written" =>
            /\ Len(reportSwapped.rows) = Len(report.rows)
            /\ \A i \in 1..Len(report.rows) :
                LET row == report.rows[i]
                    swp == reportSwapped.rows[i]
                IN  /\ swp.func = row.func
                    /\ swp.cw_stmt = row.llm_stmt /\ swp.llm_stmt = row.cw_stmt
                    /\ swp.cw_branch = row.llm_branch /\ swp.llm_branch = row.cw_branch
                    /\ IsNegationOf(row.stmt_delta, swp.stmt_delta)
                    /\ IsNegationOf(row.branch_delta, swp.branch_delta)
                    /\ ExpectedDelta(row.llm_stmt, row.cw_stmt, row.stmt_delta)
                    /\ ExpectedDelta(row.llm_branch, row.cw_branch, row.branch_delta)
                    /\ ExpectedDelta(swp.llm_stmt, swp.cw_stmt, swp.stmt_delta)
                    /\ ExpectedDelta(swp.llm_branch, swp.cw_branch, swp.branch_delta)

\* C15 witness: a retained function with statement delta 8.01 and a Missing
\* branch delta, whose row in the exchanged comparison has statement delta
\* -8.01 and a Missing branch delta, next to a second retained function
C15_Witness ==
    /\ report.st = "written"
    /\ reportSwapped.st = "written"
    /\ Len(report.rows) = 2
    /\ \E i \in 1..2 :
        /\ report.rows[i].stmt_delta = Num(Pct(8) + Cent)
        /\ report.rows[i].branch_delta = None
        /\ reportSwapped.rows[i].func = report.rows[i].func
        /\ reportSwapped.rows[i].stmt_delta = Num(-(Pct(8) + Cent))
        /\ reportSwapped.rows[i].branch_delta = None

----------------------------------------------------------------------------
(* Specification of the report scripts run one after another, in any      *)
(* order and any number of times, on one artifact snapshot; they all      *)
(* write under coverage_results/                                          *)

STR_P == <<80>>
STR_u_dot_cpp == <<117, 46, 99, 112, 112>>

ReportFolder(mf, proj, ff, fn, ts) ==
    Folder(mf, proj, ff, fn, CovPayload(ts, JNum(Pct(5)), JNum(5), JNum(2)), BaseAi)

\* two files of a project, project names that differ in case only (with a
\* file of the same name), a second variant whose only value is a text that
\* float() reads as nan, and two folders that stand for one file name
ReportSamples ==
    {ReportFolder(STR_llm4cpp, STR_p, STR_u_cpp, STR_a, JNum(Pct(8))),
     ReportFolder(STR_llm4cpp, STR_p, STR_v_h, STR_a, JNum(Pct(5))),
     ReportFolder(STR_llm4cpp, STR_P, STR_u_cpp, STR_a, JNum(Pct(6))),
     ReportFolder(STR_citywalk, STR_p, STR_u_cpp, STR_a, JStr(STR_plus_nan)),
     ReportFolder(STR_llm4cpp, STR_p, STR_u_dot_cpp, STR_a, JNum(Pct(6)))}

\* coverage_results/ is kept as the list of its files in path order
PathLess(f, g) == StrLess(f.dir, g.dir) \/ (f.dir = g.dir /\ StrLess(f.name, g.name))

\* open(path, 'w'): the file is created, or its content replaced
WriteFile(files, f) ==
    IF \E i \in 1..Len(files) : files[i].dir = f.dir /\ files[i].name = f.name
    THEN [i \in 1..Len(files) |->
             IF files[i].dir = f.dir /\ files[i].name = f.name THEN f ELSE files[i]]
    ELSE SelectSeq(files, LAMBDA g : PathLess(g, f)) \o <<f>>
             \o SelectSeq(files, LAMBDA g : PathLess(f, g))

RECURSIVE WriteFiles(_, _)
WriteFiles(files, written) ==
    IF written = <<>> THEN files
    ELSE WriteFiles(WriteFile(files, Head(written)), Tail(written))

\* the files under coverage_results/
FilesIn(dir) == IF dir.st = "none" THEN <<>> ELSE dir.files

\* coverage_results/ after a script wrote `written` and printed `printed`
Stored(dir, written, script, printed) ==
    [st |-> "written", files |-> WriteFiles(FilesIn(dir), written), last |-> script,
     printed |-> printed]

AddReportFolder(d) ==
    /\ Len(tree) < MaxFolders
    /\ NewPath(d)
    /\ csv.st = "none"
    /\ report.st = "none"
    /\ tree' = Append(tree, d)
    /\ UNCHANGED <<results, records, average, ablation, csv, report, reportStrict,
                 reportSwapped, rawValue, coerced, change, missing, important, functionsDiff>>

ListReportFolder == \E d \in ReportSamples : AddReportFolder(d)

\* main() of analyze_coverage.py
RunAnalyzeCoverage ==
    /\ results' = analyze_test_logs(tree)
    /\ csv' = Stored(csv, export_to_csv_by_project(results'.recs), "analyze_coverage",
                    NoDataToExport(results'.recs))
    /\ UNCHANGED <<tree, records, average, ablation, report, reportStrict,
                 reportSwapped, rawValue, coerced, change, missing, important, functionsDiff>>

\* main() of analyze_coverage_by_file.py
RunAnalyzeCoverageByFile ==
    /\ results' = analyze_test_logs(tree)
    /\ csv' = Stored(csv, analyze_coverage_by_file(results'.recs), "analyze_coverage_by_file",
                    NoDataToExport(results'.recs))
    /\ UNCHANGED <<tree, records, average, ablation, report, reportStrict,
                 reportSwapped, rawValue, coerced, change, missing, important, functionsDiff>>

CompareFileLevelWith(recs, order) ==
    /\ results' = analyze_test_logs(tree)
    /\ csv' = Stored(csv, compare_file_level(recs, order), "compare-file-level-coverage",
                    CompareDiagnostics(recs))
    /\ UNCHANGED <<tree, records, average, ablation, report, reportStrict,
                 reportSwapped, rawValue, coerced, change, missing, important, functionsDiff>>

\* main() of compare-file-level-coverage.py
RunCompareFileLevel ==
    \E order \in SortedKeyOrders(FileCompareKeys(analyze_test_logs(tree).recs,
                        ComparedMainFolders(MainFolderSet(analyze_test_logs(tree).recs)))) :
           CompareFileLevelWith(analyze_test_logs(tree).recs, order)

CompareProjectLevelWith(recs, order) ==
    /\ results' = analyze_test_logs(tree)
    /\ csv' = Stored(csv, compare_project_level(recs, order), "compare-project-level-coverage",
                    CompareDiagnostics(recs))
    /\ UNCHANGED <<tree, records, average, ablation, report, reportStrict,
                 reportSwapped, rawValue, coerced, change, missing, important, functionsDiff>>

\* main() of compare-project-level-coverage.py
RunCompareProjectLevel ==
    \E order \in SortedKeyOrders(ProjectCompareKeys(analyze_test_logs(tree).recs,
                        ComparedMainFolders(MainFolderSet(analyze_test_logs(tree).recs)))) :
           CompareProjectLevelWith(analyze_test_logs(tree).recs, order)

\* main() of generate_coverage_comparison.py
RunGenerateCoverageComparison ==
    /\ report' = generate_coverage_comparison(FilesIn(csv))
    /\ UNCHANGED <<tree, results, records, average, ablation, csv, reportStrict,
                 reportSwapped, rawValue, coerced, change, missing, important, functionsDiff>>

NextReports ==
    \/ ListReportFolder
    \/ RunAnalyzeCoverage
    \/ RunAnalyzeCoverageByFile
    \/ RunCompareFileLevel
    \/ RunCompareProjectLevel
    \/ RunGenerateCoverageComparison

SpecReports == Init /\ [][NextReports]_vars

\* the files of the two directories that have the same path have the same
\* content
SameContent(before, after) ==
    \A i \in 1..Len(before), j \in 1..Len(after) :
        (before[i].dir = after[j].dir /\ before[i].name = after[j].name)
            => before[i].rows = after[j].rows

\* C11: the content of a report output does not depend on the order in which
\* the report scripts are run on a snapshot: a run of another report script
\* leaves the content of every report file that is already written as it
\* is, and the function-level comparison, once written, is written with the
\* same content whichever reports were run in between.
C11_NoOrderingDependency ==
    [][/\ (csv.st = "written" /\ csv'.st = "written" /\ csv'.last # csv.last)
            => SameContent(csv.files, csv'.files)
       /\ (report.st = "written" /\ report'.st = "written") => report' = report]_vars

\* the cells of the comparison files that coverage_results/ holds
RowCellsOf(file) ==
    UNION {{file.rows[j].city_stmt, file.rows[j].llm_stmt,
            file.rows[j].city_branch, file.rows[j].llm_branch} : j \in 1..Len(file.rows)}

ComparisonCells(files) ==
    UNION {RowCellsOf(files[i]) : i \in {n \in 1..Len(files) : files[n].dir = <<>>}}

\* the cells of the lines of the function-level comparison
ReportCells(rep) ==
    IF rep.st = "written"
    THEN {rep.lines[i][j] : i \in 1..Len(rep.lines), j \in 1..7}
    ELSE {}

\* C16 (as claimed): no cell of a comparison report (function-level,
\* file-level, project-level) is the text "NaN" or "nan" in any letter case;
\* a Missing value is an empty cell.
C16_MissingIsEmptyCell ==
    \A cell \in ComparisonCells(FilesIn(csv)) \cup ReportCells(report) :
        Lower(cell) # STR_nan

\* main_folders[mf][proj][fname] of the grouping loop, for the records the
\* run extracted
IndexList(r) ==
    InFile(InProject(InMainFolder(results.recs, r.MainFolder), r.Project), r.FileName)

\* C17 (as claimed): in the variant -> project -> file -> [records] index
\* built from the extracted records no list holds two records with the same
\* function name, and the record a (variant, project, file, function) tuple
\* resolves to is the last one extracted for it.
C17_GroupingIndexUnique ==
    results.st = "returned" =>
        \A n \in 1..Len(results.recs) :
            LET list == IndexList(results.recs[n])
                same == {i \in 1..Len(list) : list[i].FunctionName = results.recs[n].FunctionName}
                last == CHOOSE m \in 1..Len(results.recs) :
                            /\ results.recs[m].MainFolder = results.recs[n].MainFolder
                            /\ results.recs[m].Project = results.recs[n].Project
                            /\ results.recs[m].FileName = results.recs[n].FileName
                            /\ results.recs[m].FunctionName = results.recs[n].FunctionName
                            /\ \A k \in (m + 1)..Len(results.recs) :
                                  ~(/\ results.recs[k].MainFolder = results.recs[n].MainFolder
                                    /\ results.recs[k].Project = results.recs[n].Project
                                    /\ results.recs[k].FileName = results.recs[n].FileName
                                    /\ results.recs[k].FunctionName = results.recs[n].FunctionName)
            IN  /\ Cardinality(same) = 1
                /\ \A i \in same : list[i] = results.recs[last]

\* C18 (as claimed): a report script run twice in a row on a snapshot leaves
\* coverage_results/ after the second run as it was after the first: every
\* file has the same rows in the same order.
C18_IdempotentRerun ==
    [][(csv.st = "written" /\ csv'.st = "written" /\ csv'.last = csv.last)
          => csv'.files = csv.files]_vars

\* the aggregates of the files of a project, file by file
RECURSIVE FileAveragesOf(_, _)
FileAveragesOf(recs, fnames) ==
    IF fnames = <<>> THEN <<>>
    ELSE calculate_averages(InFile(recs, Head(fnames))) \o FileAveragesOf(recs, Tail(fnames))

\* the aggregate of the file averages of a project
AggregateOfFileAverages(recs) == calculate_averages(FileAveragesOf(recs, FilesOf(recs)))

RECURSIVE ProjectAveragesOf(_, _)
ProjectAveragesOf(recs, projs) ==
    IF projs = <<>> THEN <<>>
    ELSE AggregateOfFileAverages(InProject(recs, Head(projs)))
            \o ProjectAveragesOf(recs, Tail(projs))

\* the aggregate of the project averages of a variant
AggregateOfProjectAverages(recs) == calculate_averages(ProjectAveragesOf(recs, ProjectsOf(recs)))

\* the six cells of a written row are those of the average
HasValuesOf(row, avg) == \A field \in CoverageFields : row[field] = CsvCell(avg[1][field])

IsProjectOf(recs, proj) == \E i \in 1..Len(recs) : recs[i].Project = proj

\* C19 (as claimed): in the files under coverage_results/, a file's row is
\* the aggregate of the file's function records, a project's average row is
\* the aggregate of the project's file averages, and a variant's average row
\* the aggregate of the variant's project averages.
C19_LevelByLevel ==
    csv.st = "written" =>
        \A i \in 1..Len(csv.files) :
            LET file == csv.files[i]
                recs == InMainFolder(results.recs, file.dir)
            IN  \A j \in 1..Len(file.rows) :
                    LET row == file.rows[j]
                    IN  /\ (file.fieldnames = FIELDNAMES /\ IsProjectOf(recs, row.Project))
                            => HasValuesOf(row, calculate_averages(
                                   InFile(InProject(recs, row.Project), row.FileName)))
                        /\ file.fieldnames = PROJECT_FIELDNAMES
                            => HasValuesOf(row, AggregateOfFileAverages(InProject(recs, row.Project)))
                        /\ (file.fieldnames = FunctionFieldnames
                                /\ StartsWith(row.FunctionName, STR_AVERAGE))
                            => IF IsProjectOf(recs, row.Project)
                               THEN HasValuesOf(row, AggregateOfFileAverages(
                                        InProject(recs, row.Project)))
                               ELSE HasValuesOf(row, AggregateOfProjectAverages(recs))

----------------------------------------------------------------------------
(* Properties of the comparing scripts run on a snapshot of one variant *)

ComparingScripts == {"compare-file-level-coverage", "compare-project-level-coverage"}

\* the files a comparing script writes for the extracted records `recs`
WrittenBy(script, recs, order) ==
    IF script = "compare-file-level-coverage" THEN compare_file_level(recs, order)
    ELSE compare_project_level(recs, order)

ComparedKeysOf(script, recs) ==
    IF script = "compare-file-level-coverage"
    THEN FileCompareKeys(recs, ComparedMainFolders(MainFolderSet(recs)))
    ELSE ProjectCompareKeys(recs, ComparedMainFolders(MainFolderSet(recs)))

\* the per-variant reports of `mf` that the script writes once the snapshot
\* holds the folder d of another variant too are all in the store, as they are
SameAsWith(script, mf, d) ==
    \A order \in SortedKeyOrders(ComparedKeysOf(script, analyze_test_logs(Append(tree, d)).recs)) :
        \A f \in {WrittenBy(script, analyze_test_logs(Append(tree, d)).recs, order)[k] :
                    k \in 1..Len(WrittenBy(script, analyze_test_logs(Append(tree, d)).recs, order))} :
            f.dir = mf => \E i \in 1..Len(csv.files) : csv.files[i] = f

\* the folders of another variant that make a comparison possible
OtherVariantFolders(mf) ==
    {d \in ReportSamples : d.mf # mf /\ NewPath(d) /\ analyze_test_logs(<<d>>).recs # <<>>}

\* C21: after a run of the file-level or of the project-level comparing
\* script on records of fewer than two variants, no comparison file is in
\* coverage_results/, the run has printed a diagnostic and has ended
\* normally, and the per-variant reports are those the script writes when a
\* second variant is there.
C21_InsufficientVariants ==
    (/\ csv.st = "written"
     /\ csv.last \in ComparingScripts
     /\ Cardinality(MainFolderSet(results.recs)) < 2)
        => /\ \A i \in 1..Len(csv.files) : csv.files[i].dir # <<>>
           /\ csv.printed # {}
           /\ results.st = "returned"
           /\ \A mf \in MainFolderSet(results.recs) :
                  \A d \in OtherVariantFolders(mf) : SameAsWith(csv.last, mf, d)

\* one variant with two files of a project went through the file-level
\* comparison, which said that there is nothing to compare with
C21_Witness ==
    /\ csv.st = "written"
    /\ csv.last = "compare-file-level-coverage"
    /\ MainFolderSet(results.recs) = {STR_llm4cpp}
    /\ Len(results.recs) = 2
    /\ csv.printed = {"Not enough main folders to compare."}
    /\ OtherVariantFolders(STR_llm4cpp) # {}
    /\ \E i \in 1..Len(csv.files) : csv.files[i].dir = STR_llm4cpp /\ Len(csv.files[i].rows) = 2

----------------------------------------------------------------------------
(* Specification of one calc_change call of the extractor, with the        *)
(* rounding of its result for the record                                  *)

\* the operands differ by at most MaxGap ten-millionths, or widely
MaxGap == 12

ChangeOperands ==
    {<<Num(Pct(8) + g), Num(Pct(8))>> : g \in -MaxGap..MaxGap}
        \cup {<<Num(g), Num(0)>> : g \in -MaxGap..MaxGap}
        \cup {<<Num(Pct(8)), Num(Pct(6) + 40000)>>, <<Num(Pct(5)), Num(Pct(8))>>,
              <<FloatNan, Num(Pct(8))>>, <<Num(0), FloatNan>>}

PassOperands(total, initial) ==
    /\ change.st = "none"
    /\ change' = [st |-> "called", total |-> total, initial |-> initial]
    /\ UNCHANGED <<tree, results, records, average, ablation, csv, report, reportStrict,
                 reportSwapped, rawValue, coerced, missing, important, functionsDiff>>

ReadOperands == \E o \in ChangeOperands : PassOperands(o[1], o[2])

\* stmt_change = calc_change(total_stmt_cov, initial_stmt_cov)
CalcChange ==
    /\ change.st = "called"
    /\ change' = [st |-> "returned", total |-> change.total, initial |-> change.initial,
                  ret |-> calc_change(change.total, change.initial)]
    /\ UNCHANGED <<tree, results, records, average, ablation, csv, report, reportStrict,
                 reportSwapped, rawValue, coerced, missing, important, functionsDiff>>

\* stmt_change = round_if_numeric(stmt_change)
RoundChange ==
    /\ change.st = "returned"
    /\ change' = [st |-> "emitted", total |-> change.total, initial |-> change.initial,
                  ret |-> change.ret, emitted |-> round_if_numeric(change.ret)]
    /\ UNCHANGED <<tree, results, records, average, ablation, csv, report, reportStrict,
                 reportSwapped, rawValue, coerced, missing, important, functionsDiff>>

NextChange == ReadOperands \/ CalcChange \/ RoundChange

SpecChange == Init /\ [][NextChange]_vars

\* abs(x) < 1e-6, for x in ten-millionths
BelowMillionth(x) == 10 * Abs(x) < Unit \div 10^5

\* C23: a change whose absolute value is below 1e-6, of either sign, is
\* returned and emitted as exactly 0; a change whose absolute value is at
\* least 1e-6 is returned by calc_change as computed.
C23_NearZeroClamp ==
    (change.st = "emitted" /\ change.total.k = "num" /\ change.initial.k = "num")
        => /\ BelowMillionth(change.total.n - change.initial.n)
                => (change.ret = Num(0) /\ change.emitted = Num(0))
           /\ ~BelowMillionth(change.total.n - change.initial.n)
                => change.ret = Num(change.total.n - change.initial.n)

\* a negative difference of 9e-7 was emitted as 0
C23_Witness ==
    /\ change.st = "emitted"
    /\ change.total = Num(Pct(8) - 9)
    /\ change.initial = Num(Pct(8))
    /\ change.ret = Num(0)
    /\ change.emitted = Num(0)

\* a difference of exactly 1e-6 was returned as it is
C23_WitnessAtThreshold ==
    /\ change.st = "emitted"
    /\ change.total.n - change.initial.n = 10
    /\ change.ret = Num(10)

----------------------------------------------------------------------------
(* Specification of the audit: the extractor and check_missing_ai_logs run *)
(* on one snapshot                                                        *)

\* the pair, each file of the pair alone, a log that is no .json file, and
\* an empty folder
AuditListings ==
    {{STR_coverage_x_json, STR_x_ai_0_logs_json},
     {STR_x_ai_0_logs_json},
     {STR_coverage_x_json},
     {STR_coverage_x_json, STR_x_ai_0_logs_txt},
     {}}

AuditSamples ==
    {ListedFolder(STR_llm4cpp, STR_p, STR_u_cpp, fn, listing) :
        fn \in {STR_f, STR_g}, listing \in AuditListings}

AddAuditFolder(d) ==
    /\ Len(tree) < MaxFolders
    /\ NewPath(d)
    /\ results.st = "none"
    /\ missing.st = "none"
    /\ tree' = Append(tree, d)
    /\ UNCHANGED <<results, records, average, ablation, csv, report, reportStrict,
                 reportSwapped, rawValue, coerced, change, missing, important, functionsDiff>>

ListAuditFolder == \E d \in AuditSamples : AddAuditFolder(d)

\* main() of missing_log_0.py
CheckMissingAiLogs ==
    /\ missing.st = "none"
    /\ missing' = check_missing_ai_logs(tree)
    /\ UNCHANGED <<tree, results, records, average, ablation, csv, report, reportStrict,
                 reportSwapped, rawValue, coerced, change, important, functionsDiff>>

NextAudit == ListAuditFolder \/ AnalyzeTestLogs \/ CheckMissingAiLogs

SpecAudit == Init /\ [][NextAudit]_vars

\* the folder is in the audit list with its five fields
Audited(d) ==
    \E k \in 1..Len(missing.list) :
        /\ missing.list[k].main_folder = d.mf
        /\ missing.list[k].project = d.proj
        /\ missing.list[k].file = d.ff
        /\ missing.list[k].function = d.fn
        /\ missing.list[k].path = <<d.mf, d.proj, d.ff, d.fn>>

\* the folder is in the audit list under some description
Listed(d) ==
    \E k \in 1..Len(missing.list) :
        missing.list[k].path = <<d.mf, d.proj, d.ff, d.fn>>
            \/ (missing.list[k].main_folder = d.mf /\ missing.list[k].project = d.proj
                    /\ missing.list[k].file = d.ff /\ missing.list[k].function = d.fn)

\* the extractor has a record of the folder
Extracted(d) ==
    \E k \in 1..Len(results.recs) :
        /\ results.recs[k].MainFolder = d.mf
        /\ results.recs[k].Project = d.proj
        /\ results.recs[k].FunctionName = d.fn

\* a file of the pair is not in the folder: no name starts with
\* 'coverage_', or no other name holds 'ai_0_logs'
LacksFileOfPair(d) ==
    \/ \A name \in d.listing : SubSeq(name, 1, 9) # STR_coverage_
    \/ \A name \in d.listing :
          SubSeq(name, 1, 9) = STR_coverage_
              \/ \A i \in 1..Len(name) : SubSeq(name, i, i + 8) # STR_ai_0_logs

\* C24 (as claimed): once the extractor and the audit have run on the
\* snapshot, every function folder that lacks one of its two required files
\* is in the audit list with its variant, project, file, function and path,
\* and no folder of which the extractor has a record is in the list.
C24_AuditCoverage ==
    (results.st = "returned" /\ missing.st = "returned")
        => \A i \in 1..Len(tree) :
              /\ LacksFileOfPair(tree[i]) => Audited(tree[i])
              /\ Extracted(tree[i]) => ~Listed(tree[i])

----------------------------------------------------------------------------
(* Specification of the aggregating functions as writers of dicts: the     *)
(* input list `records` holds the CoverageRecord dicts, a function call    *)
(* leaves in it what its assignments and pops make of them                 *)

\* the dict returned for a list of one record is that record
ReturnedDict_OnlyInput(rs) == IF Len(rs) = 1 THEN 1 ELSE 0

\* the dict calculate_averages(rs) returns: i for the i-th dict of rs, 0 for
\* a dict made by the call (the dict display of its return statement)
ReturnedDict(rs) == 0

\* the indices of the records that share the values of r in `fields`
IndicesWith(rs, fields, r) ==
    SelectSeq([i \in 1..Len(rs) |-> i], LAMBDA i : \A f \in fields : rs[i][f] = r[f])

\* the lists of records a script groups by `fields`
Groups(rs, fields) == {IndicesWith(rs, fields, rs[i]) : i \in 1..Len(rs)}

\* avg_row = calculate_averages(funcs) for the group G of rs
AvgRowOf(rs, G) ==
    IF ReturnedDict([k \in 1..Len(G) |-> rs[G[k]]]) = 0 THEN 0
    ELSE G[ReturnedDict([k \in 1..Len(G) |-> rs[G[k]]])]

\* the keys by which a script groups the records before it averages a group
\* and labels the average; ablation.py and calculate_averages label nothing
GroupingsOf(call) ==
    IF call = "export_to_csv_by_project" THEN {{"MainFolder", "Project"}, {"MainFolder"}}
    ELSE IF call = "analyze_coverage_by_file"
    THEN {{"MainFolder", "Project", "FileName"}, {"MainFolder", "FileName"}}
    ELSE IF call = "compare-file-level-coverage" THEN {{"MainFolder", "Project", "FileName"}}
    ELSE IF call = "compare-project-level-coverage" THEN {{"MainFolder", "Project"}}
    ELSE {}

AvgRows(rs, call) ==
    {AvgRowOf(rs, G) : G \in UNION {Groups(rs, fields) : fields \in GroupingsOf(call)}}

\* avg_row['Function Name'] = f'AVERAGE - ...' (analyze_coverage.py; the
\* other scripts assign the group's own file and project names);
\* avg_row.pop('Main Folder', None)
LabelAverage(row, call) ==
    [key \in DOMAIN row \ {"MainFolder"} |->
        IF key = "FunctionName" /\ call = "export_to_csv_by_project" THEN STR_AVERAGE
        ELSE row[key]]

\* the list after the statements on the dicts `objs` (0 is no dict of it)
RECURSIVE WriteRows(_, _, _)
WriteRows(rs, objs, call) ==
    IF objs \subseteq {0} THEN rs
    ELSE WriteRows([rs EXCEPT ![CHOOSE o \in objs \ {0} : TRUE] =
                        LabelAverage(rs[CHOOSE o \in objs \ {0} : TRUE], call)],
                   objs \ {CHOOSE o \in objs \ {0} : TRUE}, call)

FrameRec(mf, proj, fn) ==
    [Rec(Num(Pct(6)), Num(Pct(8)), Num(Pct(2)), Num(Pct(5)), Num(Pct(5)), Num(0))
        EXCEPT !.MainFolder = mf, !.Project = proj, !.FunctionName = fn]

FrameSamples ==
    {FrameRec(mf, proj, fn) :
        mf \in {STR_llm4cpp, STR_no_reflect}, proj \in {STR_p, STR_q}, fn \in {STR_f, STR_g}}

PassFrameRecord == \E r \in FrameSamples : AppendRecord(r)

Call(name) ==
    /\ average.st = "none"
    /\ records' = WriteRows(records, AvgRows(records, name), name)
    /\ average' = [st |-> "done", out |-> calculate_averages(records),
                   call |-> name, obj |-> ReturnedDict(records)]
    /\ UNCHANGED <<tree, results, ablation, csv, report, reportStrict,
                 reportSwapped, rawValue, coerced, change, missing, important, functionsDiff>>

CallCalculateAverages == Call("calculate_averages")
CallExportToCsvByProject == Call("export_to_csv_by_project")
CallExportToCsvByFile == Call("analyze_coverage_by_file")
CallCompareFileLevel == Call("compare-file-level-coverage")
CallCompareProjectLevel == Call("compare-project-level-coverage")
CallLoadProjectFileAverages == Call("ablation")

NextFrame ==
    \/ PassFrameRecord
    \/ CallCalculateAverages
    \/ CallExportToCsvByProject
    \/ CallExportToCsvByFile
    \/ CallCompareFileLevel
    \/ CallCompareProjectLevel
    \/ CallLoadProjectFileAverages

SpecFrame == Init /\ [][NextFrame]_vars

TenFields ==
    {"FunctionName", "FileName", "Project", "MainFolder"} \cup CoverageFields

\* C25: a call of calculate_averages, of an export or comparison function
\* or of the ablation loader leaves the input list as it was (its length,
\* its order, and the ten fields of every record, 'Main Folder' included),
\* and the aggregate returned is no dict of the input list.
C25_NoMutation ==
    [][(average.st = "none" /\ average'.st = "done")
          => /\ Len(records') = Len(records)
             /\ \A i \in 1..Len(records) :
                   /\ DOMAIN records'[i] = TenFields
                   /\ \A key \in TenFields : records'[i][key] = records[i][key]
             /\ average'.obj \notin 1..Len(records)]_vars

\* the per-project export ran on three records, one of them alone in its
\* project (the list averaged for that project holds this record only)
C25_Witness ==
    /\ average.st = "done"
    /\ average.call = "export_to_csv_by_project"
    /\ Len(records) = 3
    /\ records[1].Project = STR_p
    /\ records[2].Project = STR_q
    /\ records[3].Project = STR_p
    /\ \A i \in 1..3 : records[i].MainFolder = STR_llm4cpp

----------------------------------------------------------------------------
(* Specification of the extractor run on one function folder whose file    *)
(* folder has any name over the letters of the two suffixes                *)

MaxName == 5

\* '_', 'c', 'p', 'h'
NameAlphabet == {95, 99, 112, 104}

FolderNames == UNION {[1..n -> NameAlphabet] : n \in 1..MaxName}

AddNamedFolder(name) ==
    /\ tree = <<>>
    /\ results.st = "none"
    /\ tree' = <<Folder(STR_llm4cpp, STR_p, name, STR_f, BaseCov, BaseAi)>>
    /\ UNCHANGED <<results, records, average, ablation, csv, report, reportStrict,
                 reportSwapped, rawValue, coerced, change, missing, important, functionsDiff>>

ListNamedFolder == \E name \in FolderNames : AddNamedFolder(name)

NextNames == ListNamedFolder \/ AnalyzeTestLogs

SpecNames == Init /\ [][NextNames]_vars

\* the last n characters of s are suf
HasSuffix(s, suf) ==
    Len(s) >= Len(suf) /\ \A i \in 1..Len(suf) : s[Len(s) - Len(suf) + i] = suf[i]

\* the position of the '_' of the final suffix '_cpp' or '_h', 0 without one
SuffixUnderscore(name) ==
    IF HasSuffix(name, <<95, 99, 112, 112>>) THEN Len(name) - 3
    ELSE IF HasSuffix(name, <<95, 104>>) THEN Len(name) - 1
    ELSE 0

\* C26: the record's file name is the file-folder name with '.cpp' for a
\* final '_cpp', else with '.h' for a final '_h', else unchanged: it is the
\* folder name but for the '_' of that final suffix, which is a '.'.
C26_FilenameRewrite ==
    (results.st = "returned" /\ Len(tree) = 1 /\ Len(results.recs) = 1)
        => /\ Len(results.recs[1].FileName) = Len(tree[1].ff)
           /\ \A i \in 1..Len(tree[1].ff) :
                 results.recs[1].FileName[i] =
                     IF i = SuffixUnderscore(tree[1].ff) THEN 46 ELSE tree[1].ff[i]

\* the folder '_h_h' gave the file name '_h.h'
C26_Witness ==
    /\ results.st = "returned"
    /\ Len(tree) = 1
    /\ tree[1].ff = <<95, 104, 95, 104>>
    /\ Len(results.recs) = 1
    /\ results.recs[1].FileName = <<95, 104, 46, 104>>

----------------------------------------------------------------------------
(* Specification of main()'s --important step on a list of records *)

\* initial statement coverage around 100, the 'NaN' sentinel, a float nan,
\* None, and texts that float() reads and does not read
ImportantValues ==
    {Num(0), Num(100 * Unit - Cent), Num(100 * Unit), Num(100 * Unit + Cent),
     NaN, FloatNan, None, Text(STR_8_5), Text(STR_N_A)}

ImportantSamples ==
    {[Rec(Num(0), Num(Pct(8)), Num(Pct(8)), Num(Pct(5)), Num(Pct(5)), Num(0))
         EXCEPT !.InitialStatementCoverage = v] : v \in ImportantValues}

AppendImportantRecord(r) ==
    /\ Len(records) < MaxRecords
    /\ important.st = "none"
    /\ records' = Append(records, r)
    /\ UNCHANGED <<tree, results, average, ablation, csv, report, reportStrict,
                 reportSwapped, rawValue, coerced, change, missing, important, functionsDiff>>

PassImportantRecord == \E r \in ImportantSamples : AppendImportantRecord(r)

\* before_count = len(results); results = filter_important(results)
FilterImportant ==
    /\ important.st = "none"
    /\ important' = [st |-> "returned", before_count |-> Len(records),
                     after_count |-> Len(filter_important(records).filtered),
                     argument |-> records,
                     out |-> filter_important(records).filtered]
    /\ records' = filter_important(records).results
    /\ UNCHANGED <<tree, results, average, ablation, csv, report, reportStrict,
                 reportSwapped, rawValue, coerced, change, missing, functionsDiff>>

NextImportant == PassImportantRecord \/ FilterImportant

SpecImportant == Init /\ [][NextImportant]_vars

\* the value is a number strictly below 100 (the text '8.5' reads as one)
IsBelow100(v) == (v.k = "num" /\ v.n < Pct(100)) \/ (v.k = "text" /\ v.s = <<56, 46, 53>>)

\* the positions of the argument list whose record has such a value
ImportantPositions == {i \in 1..Len(important.argument) :
                          IsBelow100(important.argument[i].InitialStatementCoverage)}

\* C27: filter_important returns exactly the records whose initial
\* statement coverage is a number strictly below 100, in input order (the
\* k-th record returned is the record at the k-th such position), so none
\* with the 'NaN' sentinel, a value of 100 or more or a value that is no
\* number; the list it was given is as before.
C27_FilterImportant ==
    important.st = "returned"
        => /\ Len(important.out) = Cardinality(ImportantPositions)
           /\ \A i \in ImportantPositions :
                 important.out[Cardinality({j \in ImportantPositions : j <= i})]
                     = important.argument[i]
           /\ records = important.argument

\* of three records with 99.99, 'NaN' and 100 the first one came back
C27_Witness ==
    /\ important.st = "returned"
    /\ Len(records) = 3
    /\ records[1].InitialStatementCoverage = Num(Pct(100) - Cent)
    /\ records[2].InitialStatementCoverage = NaN
    /\ records[3].InitialStatementCoverage = Num(Pct(100))
    /\ important.out = <<records[1]>>
    /\ important.before_count = 3
    /\ important.after_count = 1

-----------------------------------------------------------------------------
(* Function rows of the comparison reports and the variants of a function *)

\* the variant holds a record of the function
PresentIn(mf, func) ==
    \E i \in 1..Len(results.recs) :
        results.recs[i].MainFolder = mf /\ results.recs[i].FunctionName = func

\* a delta that is a number other than zero
IsNonZeroDelta(v) == v.k = "num" /\ v.n # 0

RowsOfBothVariants(rep) ==
    rep.st = "written" =>
        \A i \in 1..Len(rep.rows) :
            /\ PresentIn(STR_citywalk, rep.rows[i].func)
            /\ PresentIn(STR_llm4cpp, rep.rows[i].func)
            /\ IsNonZeroDelta(rep.rows[i].stmt_delta) \/ IsNonZeroDelta(rep.rows[i].branch_delta)

\* C29: every function row of the standard and of the strict comparison report
\* is the row of a function that both citywalk and llm4cpp hold, with a
\* statement or branch delta that is a number other than zero; a function of
\* one variant only is in neither report.
C29_RowsOfBothVariants == RowsOfBothVariants(report) /\ RowsOfBothVariants(reportStrict)

\* C29 witness: both reports written from records where one function is held
\* by both variants and is a row of each report, and another function with
\* non-zero coverage is held by llm4cpp only and is a row of neither report
C29_Witness ==
    /\ report.st = "written"
    /\ reportStrict.st = "written"
    /\ \E i \in 1..Len(report.rows) : InReport(reportStrict, report.rows[i].func)
    /\ \E i \in 1..Len(results.recs) :
          LET r == results.recs[i]
          IN  /\ r.MainFolder = STR_llm4cpp
              /\ ~PresentIn(STR_citywalk, r.FunctionName)
              /\ IsNum(r.TotalStatementCoverage) /\ r.TotalStatementCoverage.n > 0
              /\ ~InReport(report, r.FunctionName)
              /\ ~InReport(reportStrict, r.FunctionName)

-----------------------------------------------------------------------------
(* Specification of the readers of the 'Function Name' column:             *)
(* analyze_coverage.py writes coverage_results/, then                      *)
(* generate_coverage_comparison.py and compare_project_functions.py read it *)

STR_Averages == <<65, 118, 101, 114, 97, 103, 101, 115>>
STR_AVERAG == <<65, 86, 69, 82, 65, 71>>

\* a function 'Averages' in three variants, with a difference of one
\* hundredth between citywalk and llm4cpp; a function 'AVERAG'; the
\* functions a and B
NamedSamples ==
    {CompareFolder(STR_citywalk, STR_p, STR_Averages, JNum(Pct(8)), JNum(Pct(5))),
     CompareFolder(STR_llm4cpp, STR_p, STR_Averages, JNum(Pct(8) + Cent), JNum(Pct(5))),
     CompareFolder(STR_no_reflect, STR_p, STR_Averages, JNum(Pct(8)), JNum(Pct(5))),
     CompareFolder(STR_citywalk, STR_p, STR_a, JNum(Pct(8)), JNum(Pct(5))),
     CompareFolder(STR_llm4cpp, STR_p, STR_a, JNum(Pct(8) + Cent), JNum(Pct(5))),
     CompareFolder(STR_no_reflect, STR_p, STR_a, JNum(Pct(8)), JNum(Pct(5))),
     CompareFolder(STR_llm4cpp, STR_p, STR_B, JNum(Pct(8) + Cent), JNum(Pct(5))),
     CompareFolder(STR_llm4cpp, STR_q, STR_AVERAG, JNum(Pct(8)), JNum(Pct(5))),
     CompareFolder(STR_no_reflect, STR_q, STR_AVERAG, JNum(Pct(8)), JNum(Pct(5)))}

AddNamedFunctionFolder(d) ==
    /\ Len(tree) < MaxFolders + 1
    /\ NewPath(d)
    /\ csv.st = "none"
    /\ tree' = Append(tree, d)
    /\ UNCHANGED <<results, records, average, ablation, csv, report, reportStrict,
                 reportSwapped, rawValue, coerced, change, missing, important, functionsDiff>>

ListFunctionFolder == \E d \in NamedSamples : AddNamedFunctionFolder(d)

\* main() of compare_project_functions.py
CompareProjectFunctions ==
    /\ csv.st = "written"
    /\ functionsDiff.st = "none"
    /\ functionsDiff' = compare_project_functions(csv.files)
    /\ UNCHANGED <<tree, results, records, average, ablation, csv, report, reportStrict,
                 reportSwapped, rawValue, coerced, change, missing, important>>

NextFunctions ==
    \/ ListFunctionFolder
    \/ AnalyzeCoverage
    \/ GenerateCoverageComparison
    \/ CompareProjectFunctions

SpecFunctions == Init /\ [][NextFunctions]_vars

\* the name starts with the letters of 'AVERAGE', each in either case
StartsWithAverage(name) ==
    /\ Len(name) >= Len(STR_AVERAGE)
    /\ \A i \in 1..Len(STR_AVERAGE) : name[i] \in {STR_AVERAGE[i], STR_AVERAGE[i] + 32}

\* the function names of a variant's records that are not summary names
ConsideredNames(mf) ==
    {results.recs[i].FunctionName :
        i \in {j \in 1..Len(results.recs) :
                  /\ results.recs[j].MainFolder = mf
                  /\ ~StartsWithAverage(results.recs[j].FunctionName)}}

Elements(seq) == {seq[i] : i \in 1..Len(seq)}

\* C30: the function-level comparison considers exactly the function names of
\* the citywalk and llm4cpp records that do not start with 'AVERAGE' in any
\* letter case, and the function-set diff counts and lists exactly such names
\* of the llm4cpp and no_reflect records; a function whose name begins with
\* 'average' is in neither output.
C30_SummaryRowsByName ==
    /\ report.st = "written" =>
          /\ Elements(report.all_funcs) = ConsideredNames(STR_citywalk) \cup ConsideredNames(STR_llm4cpp)
          /\ \A i \in 1..Len(report.rows) : ~StartsWithAverage(report.rows[i].func)
    /\ functionsDiff.st = "written" =>
          /\ functionsDiff.llm_count = Cardinality(ConsideredNames(STR_llm4cpp))
          /\ functionsDiff.cw_count = Cardinality(ConsideredNames(STR_no_reflect))
          /\ Elements(functionsDiff.llm_only)
                = ConsideredNames(STR_llm4cpp) \ ConsideredNames(STR_no_reflect)
          /\ Elements(functionsDiff.cw_only)
                = ConsideredNames(STR_no_reflect) \ ConsideredNames(STR_llm4cpp)

\* C30 witness: the function 'Averages' is held by citywalk and llm4cpp (with
\* different coverage) and not by no_reflect, function B by llm4cpp only; the
\* comparison considers B and not 'Averages', and the diff lists B alone as
\* present only in llm4cpp
C30_Witness ==
    /\ report.st = "written"
    /\ functionsDiff.st = "written"
    /\ PresentIn(STR_citywalk, STR_Averages)
    /\ PresentIn(STR_llm4cpp, STR_Averages)
    /\ ~PresentIn(STR_no_reflect, STR_Averages)
    /\ PresentIn(STR_llm4cpp, STR_B)
    /\ report.all_funcs = <<STR_B>>
    /\ functionsDiff.llm_only = <<STR_B>>
    /\ functionsDiff.llm_count = 1

====
